---- MODULE Spec2Model ----
(***************************************************************************)
(* A model of the Plinko outcome-targeting and layout engine:              *)
(*   - PlinkoEngine (src/src/lib/components/Plinko/PlinkoEngine.ts): the   *)
(*     matter-js based engine with per-row steering along a preselected    *)
(*     L/R path, the sensor handler and the Svelte stores it writes;       *)
(*   - BallManager (src/unnamed/part_000) with createObstacles             *)
(*     (src/src/game/objects.ts): the canvas based board.                  *)
(*                                                                         *)
(* Numbers.  The code computes in floating point.  The model computes the  *)
(* same expressions in exact arithmetic on integers, each coordinate kept  *)
(* as a numerator over a fixed denominator that depends only on the row    *)
(* count n of the layout it belongs to:                                    *)
(*   engine x : units of 1/XS(n) px,  XS(n) = 10*(n+1)                     *)
(*   engine y : units of 1/YS(n) px,  YS(n) = 5*(n-1)                      *)
(*   velocity : tenths of a px per tick;  money : tenths of a unit.        *)
(* Every division of the modelled expressions is exact in these units.     *)
(***************************************************************************)
EXTENDS Integers, Sequences, FiniteSets, TLC

VARIABLES
    rowCount,                 \* PlinkoEngine.rowCount (cache of the rowCount store)
    betAmount,                \* PlinkoEngine.betAmount (cache of the betAmount store)
    riskLevel,                \* PlinkoEngine.riskLevel (cache of the riskLevel store)
    pins,                     \* PlinkoEngine.pins: the pin bodies, in push order
    walls,                    \* PlinkoEngine.walls
    pinsLastRowXCoords,       \* PlinkoEngine.pinsLastRowXCoords
    rowYCoords,               \* PlinkoEngine.rowYCoords
    balls,                    \* bodies of BALL_CATEGORY in engine.world: id -> body
    preselectedPaths,         \* PlinkoEngine.preselectedPaths: id -> {directions, step}
    betAmountOfExistingBalls, \* store: id -> bet amount
    balance,                  \* store
    winRecords,               \* store
    totalProfitHistory,       \* store
    nextId,                   \* matter-js body id counter (ids are never reused)
    rows,                     \* BallManager.rows
    obstacleRadiusPx,         \* BallManager.obstacleRadiusPx
    ballRadiusPx,             \* BallManager.ballRadiusPx
    obstacles,                \* BallManager.obstacles
    bmBalls,                  \* BallManager.balls: the Ball objects, in push order
    finished,                 \* the calls of BallManager.onFinish so far
    nextBall,                 \* identity of the next Ball object
    sinks,                    \* BallManager.sinks (the multiplier of each sink)
    risk,                     \* BallManager.risk
    rebasing,                 \* BallManager: an offset carried between row counts, and its history
    frameRequested,           \* BallManager: a requestAnimationFrame callback is pending
    running,                  \* PlinkoEngine: the Matter.Runner is running
    lastOp                    \* the last operation and its inputs (observation only)

engineVars == <<rowCount, betAmount, riskLevel, pins, walls, pinsLastRowXCoords,
                rowYCoords, balls, preselectedPaths, betAmountOfExistingBalls,
                balance, winRecords, totalProfitHistory, nextId>>

bmVars == <<rows, obstacleRadiusPx, ballRadiusPx, obstacles, bmBalls, finished, nextBall,
           sinks, risk, rebasing>>

loopVars == <<frameRequested, running>>

vars == <<engineVars, bmVars, loopVars, lastOp>>

-----------------------------------------------------------------------------
(* Program constants *)

\* PlinkoEngine.WIDTH and HEIGHT, the canvas of the engine.
WIDTH == 760
HEIGHT == 570
PADDING_X == 52
PADDING_TOP == 36
PADDING_BOTTOM == 28

\* The supported row counts (type RowCount; the spec: "integer, 8-20").
MinRowCount == 8
MaxRowCount == 20
RowCounts == MinRowCount..MaxRowCount

RiskLevels == {"LOW", "MEDIUM", "HIGH"}

\* WIDTH, HEIGHT of game/constants and DECIMAL_MULTIPLIER of game/padding.
GAME_WIDTH == 800
GAME_HEIGHT == 800
DECIMAL_MULTIPLIER == 10000

\* The balance store's initial value, in money units.
InitialBalance == 200

\* Money is kept in tenths of a unit: u units, and a*b for a factor b in tenths.
Money(u) == u * 10
Times(a, b) == (a * b) \div 10

-----------------------------------------------------------------------------
(* Bounds of the model *)

\* At most MaxDrops balls are dropped in a behaviour.
MaxDrops == 2
\* The most rebases of one offset.
MaxRebases == 2

-----------------------------------------------------------------------------
(* Helpers *)

Max(a, b) == IF a >= b THEN a ELSE b
Min(a, b) == IF a <= b THEN a ELSE b
Abs(a) == IF a >= 0 THEN a ELSE -a
SetMax(S) == CHOOSE m \in S : \A s \in S : s <= m

\* Denominators of the engine's coordinates for a layout of n rows.
XS(n) == 10 * (n + 1)
YS(n) == 5 * (n - 1)

\* A map without key k (delete obj[k]).
Without(f, k) == [j \in DOMAIN f \ {k} |-> f[j]]
\* A map with key k set to v ({...obj, [k]: v}).
With(f, k, v) == [j \in DOMAIN f \cup {k} |-> IF j = k THEN v ELSE f[j]]

EmptyMap == [j \in {} |-> 0]
Range(q) == {q[i] : i \in DOMAIN q}

-----------------------------------------------------------------------------
(* PlinkoEngine: geometry *)

\* get pinDistanceX, in 1/XS(n) px.
pinDistanceX(n) ==
    LET lastRowPinCount == 3 + n - 1
    IN  ((WIDTH - PADDING_X * 2) * XS(n)) \div (lastRowPinCount - 1)

\* get pinRadius, in 1/YS(n) px.
pinRadius(n) == ((24 - n) * YS(n)) \div 2

\* rowY of placePinsAndWalls, in 1/YS(n) px.
rowY(n, row) ==
    PADDING_TOP * YS(n) + (((HEIGHT - PADDING_TOP - PADDING_BOTTOM) * YS(n)) \div (n - 1)) * row

\* rowPaddingX of placePinsAndWalls, in 1/XS(n) px.
rowPaddingX(n, row) == PADDING_X * XS(n) + ((n - 1 - row) * pinDistanceX(n)) \div 2

\* colX of placePinsAndWalls, in 1/XS(n) px.
colX(n, row, col) ==
    rowPaddingX(n, row) + ((WIDTH * XS(n) - rowPaddingX(n, row) * 2) \div (3 + row - 1)) * col

\* The pins the inner loop pushes for one row.
RowPins(n, row) == [c \in 1..(3 + row) |-> [x |-> colX(n, row, c - 1), y |-> rowY(n, row)]]

RECURSIVE PinsFrom(_, _)
\* The pins the outer loop pushes for rows row..n-1.
PinsFrom(n, row) == IF row >= n THEN << >> ELSE RowPins(n, row) \o PinsFrom(n, row + 1)

\* The x the loop pushes to pinsLastRowXCoords: the pins of row n-1.
LastRowXs(n) == [c \in 1..(3 + n - 1) |-> colX(n, n - 1, c - 1)]

\* The y the loop pushes to rowYCoords.
RowYs(n) == [r \in 1..n |-> rowY(n, r - 1)]

\* The two guard walls (their x; the angle is immaterial here), for the
\* first pin ps[1] and the first x of the last row.
NewWalls(n, ps, lastXs) ==
    LET firstPinX == ps[1].x
        leftWallX == firstPinX - (firstPinX - lastXs[1]) \div 2 - pinDistanceX(n) \div 4
    IN  << [x |-> leftWallX], [x |-> WIDTH * XS(n) - leftWallX] >>

\* What the loops of placePinsAndWalls push for each row count (computed once).
Pushed ==
    [n \in RowCounts |-> [pins |-> PinsFrom(n, 0), lastXs |-> LastRowXs(n), rowYs |-> RowYs(n)]]

\* The same for any row count.
PushedFor(n) ==
    IF n \in RowCounts THEN Pushed[n]
    ELSE [pins |-> PinsFrom(n, 0), lastXs |-> LastRowXs(n), rowYs |-> RowYs(n)]

\* A layout that forgets to drop the previous one.
placePinsAndWallsKeepOld(n, oldPins, oldLastXs, oldRowYs, oldWalls) ==
    LET ps == oldPins \o PushedFor(n).pins
        xs == oldLastXs \o PushedFor(n).lastXs
    IN  [pins |-> ps,
         pinsLastRowXCoords |-> xs,
         rowYCoords |-> oldRowYs \o PushedFor(n).rowYs,
         walls |-> oldWalls \o NewWalls(n, ps, xs)]

\* placePinsAndWalls: the fields after the call, from the fields before it.
placePinsAndWalls(n, oldPins, oldLastXs, oldRowYs, oldWalls) ==
    LET pins0  == IF Len(oldPins) > 0 THEN << >> ELSE oldPins
        lastX0 == IF Len(oldLastXs) > 0 THEN << >> ELSE oldLastXs
        rowY0  == IF Len(oldRowYs) > 0 THEN << >> ELSE oldRowYs
        walls0 == IF Len(oldWalls) > 0 THEN << >> ELSE oldWalls
        ps == pins0 \o PushedFor(n).pins
        xs == lastX0 \o PushedFor(n).lastXs
    IN  [pins |-> ps,
         pinsLastRowXCoords |-> xs,
         rowYCoords |-> rowY0 \o PushedFor(n).rowYs,
         walls |-> walls0 \o NewWalls(n, ps, xs)]

-----------------------------------------------------------------------------
(* PlinkoEngine: path planning *)

\* A path that spends its right moves first.
computeLRPathBunched(n, targetBinIndex) ==
    LET k == Max(0, Min(n, targetBinIndex))
    IN  [i \in 1..n |-> IF i <= k THEN "R" ELSE "L"]

\* computeLRPath with Math.ceil for Math.floor.
computeLRPathCeil(n, targetBinIndex) ==
    LET k == Max(0, Min(n, targetBinIndex))
    IN  [i \in 1..n |->
            LET prev == ((i - 1) * k + n - 1) \div n
                curr == (i * k + n - 1) \div n
            IN  IF curr > prev THEN "R" ELSE "L"]

\* computeLRPath for row count n.
computeLRPath(n, targetBinIndex) ==
    LET k == Max(0, Min(n, targetBinIndex))
    IN  [i \in 1..n |->
            LET prev == ((i - 1) * k) \div n
                curr == (i * k) \div n
            IN  IF curr > prev THEN "R" ELSE "L"]

-----------------------------------------------------------------------------
(* PlinkoEngine: state after construction *)

\* A target argument of dropBall: absent, or the number num/10.
NoTarget == [given |-> FALSE, num |-> 0]
Target(num) == [given |-> TRUE, num |-> num]

NoOp == [op |-> "constructor", id |-> 0, given |-> FALSE, num |-> 0, bin |-> -1]
\* A write to the betAmount or the riskLevel store.
StoreOp == [op |-> "store", id |-> 0, given |-> FALSE, num |-> 0, bin |-> -1]

\* The multiplier table binPayouts[rowCount][riskLevel][binIndex], in tenths.
binPayouts(n, level, binIndex) ==
    LET d == Abs(2 * binIndex - n)
    IN  CASE level = "LOW" -> 5 + d
          [] level = "MEDIUM" -> 4 + 2 * d
          [] OTHER -> 2 + 3 * d

\* The constructor, with the stores holding row count n, bet b and risk r.
InitEngine(R) ==
    /\ rowCount \in R
    /\ betAmount = Money(1)
    /\ riskLevel = "LOW"
    /\ LET l == placePinsAndWalls(rowCount, << >>, << >>, << >>, << >>)
       IN  /\ pins = l.pins
           /\ pinsLastRowXCoords = l.pinsLastRowXCoords
           /\ rowYCoords = l.rowYCoords
           /\ walls = l.walls
    /\ balls = EmptyMap
    /\ preselectedPaths = EmptyMap
    /\ betAmountOfExistingBalls = EmptyMap
    /\ balance = Money(InitialBalance)
    /\ winRecords = << >>
    /\ totalProfitHistory = << 0 >>
    /\ nextId = 1
    /\ lastOp = NoOp

-----------------------------------------------------------------------------
(* PlinkoEngine: operations *)

\* getRandomBetween(min, max) for Math.random() = rnd/10.
getRandomBetween(min, max, rnd) == min + Times(max - min, rnd)

\* Math.floor of the target num/10.
FloorTarget(num) == num \div 10

\* The clamp with Math.min and Math.max exchanged.
clampedTargetSwapped(n, num) == Min(0, Max(n, FloorTarget(num)))

\* clampedTarget of dropBall.
clampedTarget(n, num) == Max(0, Min(n, FloorTarget(num)))

\* dropBall(targetBinIndex).
dropBall(target, rnd) ==
    LET ballOffsetRangeX == (pinDistanceX(rowCount) * 8) \div 10
        centre == (WIDTH * XS(rowCount)) \div 2
        spawnX == IF target.given
                  THEN centre
                  ELSE getRandomBetween(centre - ballOffsetRangeX,
                                        centre + ballOffsetRangeX, rnd)
        id == nextId
        ball == [x |-> spawnX, y |-> 0, vx |-> 0, vy |-> 0, fx |-> 0]
    IN  /\ nextId' = nextId + 1
        /\ balls' = With(balls, id, ball)
        /\ betAmountOfExistingBalls' = With(betAmountOfExistingBalls, id, betAmount)
        /\ balance' = balance - betAmount
        /\ preselectedPaths' =
             IF target.given
             THEN With(preselectedPaths, id,
                       [directions |-> computeLRPath(rowCount,
                                                     clampedTarget(rowCount, target.num)),
                        step |-> 0])
             ELSE preselectedPaths
        /\ lastOp' = [op |-> "dropBall", id |-> id, given |-> target.given,
                      num |-> target.num, bin |-> -1]
        /\ UNCHANGED <<rowCount, betAmount, riskLevel, pins, walls, pinsLastRowXCoords,
                       rowYCoords, winRecords, totalProfitHistory>>

\* A findLastIndex that returns the first match.
findFirstIndex(xs, x) ==
    LET S == {i \in 1..Len(xs) : xs[i] < x}
    IN  IF S = {} THEN -1 ELSE 0

\* Array.prototype.findLastIndex with the predicate pinX < x (0-based, -1 if none).
findLastIndex(xs, x) ==
    LET S == {i \in 1..Len(xs) : xs[i] < x}
    IN  IF S = {} THEN -1 ELSE SetMax(S) - 1

\* The guard of handleBallEnterBin, without the exclusion of the last peg.
binIsValidClamped(binIndex, nPins) == binIndex /= -1

\* The guard of handleBallEnterBin: the index names a gap between two pegs.
binIsValid(binIndex, nPins) == binIndex /= -1 /\ binIndex < nPins - 1

\* A payout that finds no recorded bet.
payoutBetForgotten(id) == 0

\* The payout of handleBallEnterBin that uses the engine's current bet.
payoutBetCurrent(id) == betAmount

\* The bet handleBallEnterBin pays out on: the one recorded for the ball.
payoutBet(id) ==
    IF id \in DOMAIN betAmountOfExistingBalls THEN betAmountOfExistingBalls[id] ELSE 0

\* handleBallEnterBin(ball) for the body id at position x.
handleBallEnterBin(id, x) ==
    LET binIndex == findLastIndex(pinsLastRowXCoords, x)
        valid == binIsValid(binIndex, Len(pinsLastRowXCoords))
        bet == payoutBet(id)
        multiplier == binPayouts(rowCount, riskLevel, binIndex)
        payoutValue == Times(bet, multiplier)
        profit == payoutValue - bet
    IN  /\ winRecords' =
             IF valid
             THEN Append(winRecords,
                         [betAmount |-> bet, rowCount |-> rowCount, binIndex |-> binIndex,
                          payout |-> [multiplier |-> multiplier, value |-> payoutValue],
                          profit |-> profit])
             ELSE winRecords
        /\ totalProfitHistory' =
             IF valid
             THEN Append(totalProfitHistory,
                         totalProfitHistory[Len(totalProfitHistory)] + profit)
             ELSE totalProfitHistory
        /\ balance' = IF valid THEN balance + payoutValue ELSE balance
        /\ balls' = Without(balls, id)
        /\ betAmountOfExistingBalls' = Without(betAmountOfExistingBalls, id)
        /\ preselectedPaths' = Without(preselectedPaths, id)
        /\ lastOp' = [op |-> "handleBallEnterBin", id |-> id, given |-> valid,
                      num |-> x, bin |-> binIndex]
        /\ UNCHANGED <<rowCount, betAmount, riskLevel, pins, walls, pinsLastRowXCoords,
                       rowYCoords, nextId>>

\* removeAllBalls that keeps the bodies in the world.
removeAllBallsNone(bs) == bs

\* removeAllBalls: the ball bodies left in the world.
removeAllBalls(bs) == EmptyMap

\* An updateRowCount without the early return.
updateRowCountAlways(n) ==
    /\ lastOp' = [op |-> "updateRowCount", id |-> 0, given |-> (n /= rowCount),
                  num |-> n, bin |-> -1, removed |-> DOMAIN balls]
    /\ LET l == placePinsAndWalls(n, pins, pinsLastRowXCoords, rowYCoords, walls)
       IN  /\ balls' = removeAllBalls(balls)
           /\ betAmountOfExistingBalls' = EmptyMap
           /\ rowCount' = n
           /\ pins' = l.pins
           /\ pinsLastRowXCoords' = l.pinsLastRowXCoords
           /\ rowYCoords' = l.rowYCoords
           /\ walls' = l.walls
           /\ UNCHANGED <<betAmount, riskLevel, preselectedPaths, balance,
                          winRecords, totalProfitHistory, nextId>>

\* updateRowCount(n), the rowCount store's subscriber.
updateRowCount(n) ==
    /\ lastOp' = [op |-> "updateRowCount", id |-> 0, given |-> (n /= rowCount),
                  num |-> n, bin |-> -1, removed |-> DOMAIN balls]
    /\ IF n = rowCount
       THEN UNCHANGED engineVars
       ELSE LET l == placePinsAndWalls(n, pins, pinsLastRowXCoords, rowYCoords, walls)
            IN  /\ balls' = removeAllBalls(balls)
                /\ betAmountOfExistingBalls' = EmptyMap
                /\ rowCount' = n
                /\ pins' = l.pins
                /\ pinsLastRowXCoords' = l.pinsLastRowXCoords
                /\ rowYCoords' = l.rowYCoords
                /\ walls' = l.walls
                /\ UNCHANGED <<betAmount, riskLevel, preselectedPaths, balance,
                               winRecords, totalProfitHistory, nextId>>

\* The betAmount store's subscriber.
setBetAmount(v) ==
    /\ betAmount' = v
    /\ lastOp' = StoreOp
    /\ UNCHANGED <<rowCount, riskLevel, pins, walls, pinsLastRowXCoords, rowYCoords, balls,
                   preselectedPaths, betAmountOfExistingBalls, balance, winRecords,
                   totalProfitHistory, nextId>>

\* The riskLevel store's subscriber.
setRiskLevel(r) ==
    /\ riskLevel' = r
    /\ lastOp' = StoreOp
    /\ UNCHANGED <<rowCount, betAmount, pins, walls, pinsLastRowXCoords, rowYCoords, balls,
                   preselectedPaths, betAmountOfExistingBalls, balance, winRecords,
                   totalProfitHistory, nextId>>

-----------------------------------------------------------------------------
(* PlinkoEngine: steering *)

\* Velocities are in tenths of a px per tick; fx counts forceMagnitude units.
vxBoost == 22
maxVx == 35

\* threshold of steerBallsAlongPreselectedPaths, in 1/YS(n) px.
threshold(n) == (pinRadius(n) * 12) \div 10

\* A test of the loop that does not look at the ball's height.
reachedAnywhere(body, step, thr) == step + 1 <= Len(rowYCoords)

\* The loop's test: rowYCoords[step] of a missing index is undefined, and the
\* comparison with undefined is false.
reached(body, step, thr) ==
    /\ step + 1 <= Len(rowYCoords)
    /\ body.y + thr >= rowYCoords[step + 1]

\* A pass of the loop body that adds the boost without the cap.
applySteerUncapped(body, dir) ==
    LET desired == Abs(body.vx) + vxBoost
    IN  [body EXCEPT !.fx = IF dir = "R" THEN @ + 1 ELSE @ - 1,
                     !.vx = IF dir = "R" THEN desired ELSE -desired]

\* One pass of the loop body for direction dir.
applySteer(body, dir) ==
    LET desired == Min(maxVx, Abs(body.vx) + vxBoost)
    IN  [body EXCEPT !.fx = IF dir = "R" THEN @ + 1 ELSE @ - 1,
                     !.vx = IF dir = "R" THEN desired ELSE -desired]

\* A loop that applies the decision at the cursor and leaves the cursor.
steerLoopReplay(body, directions, step, thr) ==
    IF step < Len(directions) /\ reached(body, step, thr)
    THEN [body |-> applySteer(body, directions[step + 1]), step |-> step]
    ELSE [body |-> body, step |-> step]

\* A loop that takes at most one row in a tick.
steerLoopOnce(body, directions, step, thr) ==
    IF step < Len(directions) /\ reached(body, step, thr)
    THEN [body |-> applySteer(body, directions[step + 1]), step |-> step + 1]
    ELSE [body |-> body, step |-> step]

RECURSIVE steerLoop(_, _, _, _)
\* The while loop: the body and the step after it.
steerLoop(body, directions, step, thr) ==
    IF step < Len(directions) /\ reached(body, step, thr)
    THEN steerLoop(applySteer(body, directions[step + 1]), directions, step + 1, thr)
    ELSE [body |-> body, step |-> step]

\* The bodies the loop over allBodies touches.
steered(id) == id \in DOMAIN preselectedPaths
               /\ preselectedPaths[id].step < Len(preselectedPaths[id].directions)

\* A handler that also pushes the balls without a path to the right.
steerBallsAlongPreselectedPathsAll ==
    /\ lastOp' = [op |-> "steer", id |-> 0, given |-> FALSE, num |-> 0, bin |-> -1]
    /\ IF Len(rowYCoords) = 0
       THEN UNCHANGED engineVars
       ELSE LET thr == threshold(rowCount)
                out(id) == steerLoop(balls[id], preselectedPaths[id].directions,
                                     preselectedPaths[id].step, thr)
            IN  /\ balls' = [id \in DOMAIN balls |->
                               IF id \notin DOMAIN preselectedPaths
                               THEN applySteer(balls[id], "R")
                               ELSE IF steered(id) THEN out(id).body ELSE balls[id]]
                /\ preselectedPaths' =
                     [id \in DOMAIN preselectedPaths |->
                        IF id \in DOMAIN balls /\ steered(id)
                        THEN [directions |-> preselectedPaths[id].directions,
                              step |-> out(id).step]
                        ELSE preselectedPaths[id]]
                /\ UNCHANGED <<rowCount, betAmount, riskLevel, pins, walls,
                               pinsLastRowXCoords, rowYCoords, betAmountOfExistingBalls,
                               balance, winRecords, totalProfitHistory, nextId>>

\* steerBallsAlongPreselectedPaths, the beforeUpdate handler.
steerBallsAlongPreselectedPaths ==
    /\ lastOp' = [op |-> "steer", id |-> 0, given |-> FALSE, num |-> 0, bin |-> -1]
    /\ IF Len(rowYCoords) = 0
       THEN UNCHANGED engineVars
       ELSE LET thr == threshold(rowCount)
                out(id) == steerLoop(balls[id], preselectedPaths[id].directions,
                                     preselectedPaths[id].step, thr)
            IN  /\ balls' = [id \in DOMAIN balls |->
                               IF steered(id) THEN out(id).body ELSE balls[id]]
                /\ preselectedPaths' =
                     [id \in DOMAIN preselectedPaths |->
                        IF id \in DOMAIN balls /\ steered(id)
                        THEN [directions |-> preselectedPaths[id].directions,
                              step |-> out(id).step]
                        ELSE preselectedPaths[id]]
                /\ UNCHANGED <<rowCount, betAmount, riskLevel, pins, walls,
                               pinsLastRowXCoords, rowYCoords, betAmountOfExistingBalls,
                               balance, winRecords, totalProfitHistory, nextId>>

-----------------------------------------------------------------------------
(* matter-js: what one engine update does to a ball *)

\* The integration step moves the falling ball id to height y with velocity
\* (vx, vy) and clears the force applied to it.
move(id, y, vx, vy) ==
    /\ id \in DOMAIN balls
    /\ y > balls[id].y
    /\ balls' = [balls EXCEPT ![id] = [@ EXCEPT !.y = y, !.vx = vx, !.vy = vy, !.fx = 0]]
    /\ lastOp' = [op |-> "move", id |-> id, given |-> FALSE, num |-> y, bin |-> -1]
    /\ UNCHANGED <<rowCount, betAmount, riskLevel, pins, walls, pinsLastRowXCoords,
                   rowYCoords, preselectedPaths, betAmountOfExistingBalls, balance,
                   winRecords, totalProfitHistory, nextId>>

\* collisionStart: the update brings ball id onto the sensor at x, and the
\* handler passes it to handleBallEnterBin.
collisionStart(id, x) ==
    /\ id \in DOMAIN balls
    /\ handleBallEnterBin(id, x)

-----------------------------------------------------------------------------
(* BallManager and createObstacles.  x of a board of r rows is in units of  *)
(* 1/BXS(r) px and y in units of 1/BYS(r) px, before padding.               *)

BXS(r) == 2 * (r + 1)
BYS(r) == r

\* pad of game/padding.
pad(v) == v * DECIMAL_MULTIPLIER

\* Math.round(a / b) for positive a and b.
Round(a, b) == (2 * a + b) \div (2 * b)

\* BallManager.computeObstacleRadius.
computeObstacleRadius(r) ==
    LET base == 5
    IN  Max(3, Min(9, Round(base * 16, Max(8, Min(16, r)))))

\* BallManager.computeBallRadius.
computeBallRadius(r) ==
    LET base == 9
    IN  Max(5, Min(12, Round(base * 16, Max(8, Min(16, r)))))

\* One obstacle of createObstacles.
Obstacle(r, radius, level, col) ==
    LET verticalGap == ((GAME_HEIGHT - 220) * BYS(r)) \div r
        horizontalPad == Max(radius * 2, 12)
        safeWidth == GAME_WIDTH - 2 * horizontalPad
        baseSpacing == (safeWidth * BXS(r)) \div (r + 1)
        numObstacles == level + 3
        y == (level + 1) * verticalGap
        rowWidth == baseSpacing * (numObstacles - 1)
        rowStart == (GAME_WIDTH * BXS(r)) \div 2 - rowWidth \div 2
        x == rowStart + baseSpacing * col
        clampedX == Max(horizontalPad * BXS(r), Min((GAME_WIDTH - horizontalPad) * BXS(r), x))
    IN  [x |-> pad(clampedX), y |-> pad(y), radius |-> radius]

RECURSIVE ObstaclesFrom(_, _, _)
\* The obstacles the loops of createObstacles push for levels level..r-1.
ObstaclesFrom(r, radius, level) ==
    IF level >= r THEN << >>
    ELSE [c \in 1..(level + 3) |-> Obstacle(r, radius, level, c - 1)]
         \o ObstaclesFrom(r, radius, level + 1)

\* createObstacles for the radius BallManager passes (computed once).
Created == [r \in RowCounts |-> ObstaclesFrom(r, computeObstacleRadius(r), 0)]

\* createObstacles(rows, obstacleRadiusPx).
createObstacles(r, radius) ==
    IF r \in RowCounts /\ radius = computeObstacleRadius(r)
    THEN Created[r]
    ELSE ObstaclesFrom(r, radius, 0)

\* BallManager.getNumSinks(r).
getNumSinks(r) == Max(4, r + 1)

\* The quotient num / den of naturals rounded to the nearest integer, half up.
RoundDiv(num, den) == num \div den + (IF 2 * (num % den) >= den THEN 1 ELSE 0)

\* getMultiplier with the centre at numSinks / 2.
getMultiplierOffCentre(indexZeroBased, numSinks) ==
    LET m == numSinks - 1
        a == Abs(2 * indexZeroBased - m - 1)
        mm == Max(2, m)
        p == (mm + 31 * a) * 10
        q == 6 * (2500 * m + 1) - 2500 * Abs(2 * a - m)
    IN  RoundDiv(p * q, mm * (2500 * m + 1))

\* getMultiplier(indexZeroBased, numSinks), in hundredths.  With m = numSinks - 1
\* and a = |2i - m| (so d = a/2, maxD = m/2):
\*   linear  = (max(2,m) + 31a) / (2 max(2,m))
\*   midBump = (6(2500m + 1) - 2500|2a - m|) / (5(2500m + 1))
\* and toFixed(2) rounds 100 * linear * midBump to the nearest integer.
getMultiplier(indexZeroBased, numSinks) ==
    LET m == numSinks - 1
        a == Abs(2 * indexZeroBased - m)
        mm == Max(2, m)
        p == (mm + 31 * a) * 10
        q == 6 * (2500 * m + 1) - 2500 * Abs(2 * a - m)
    IN  RoundDiv(p * q, mm * (2500 * m + 1))

\* createSinks(numSinks, sinkWidthPx): the multipliers of the sinks (their
\* position and size are drawing data and are left out).
createSinks(numSinks) ==
    [i \in 1..numSinks |-> [multiplier |-> getMultiplier(i - 1, numSinks)]]

\* The risk levels of game/multipliers.
Risks == {"low", "medium", "high"}

\* getMultipliersFor(rows, risk) of game/multipliers, in hundredths: a table
\* for 8 to 16 rows, symmetric about the centre and non-decreasing outward;
\* << >> stands for undefined.
getMultipliersFor(r, k) ==
    IF r \in 8..16 /\ k \in Risks
    THEN [i \in 1..(r + 1) |->
            LET d == Abs(2 * (i - 1) - r)
            IN  CASE k = "low" -> 50 + 10 * d
                  [] k = "medium" -> 40 + 20 * d
                  [] OTHER -> 20 + 30 * d]
    ELSE << >>

\* applySinksMultipliers() on the sinks sk, with this.rows = r and this.risk = k.
applySinksMultipliers(sk, r, k) ==
    LET desired == getMultipliersFor(r, k)
    IN  IF desired = << >> \/ Len(desired) /= getNumSinks(r)
        THEN sk
        ELSE [i \in 1..Len(sk) |-> [sk[i] EXCEPT !.multiplier = desired[i]]]

\* A config of the constructor and of setConfig with the keys rows and risk;
\* rows 0 and risk "" stand for an absent key.
Config(r, k) == [rows |-> r, risk |-> k]

\* No offset is being rebased.
NoRebasing == [rows |-> << >>, offsets |-> << >>]

\* The constructor, with config.rows in R.
InitBallManager(R) ==
    /\ rows \in R
    /\ obstacleRadiusPx = computeObstacleRadius(rows)
    /\ ballRadiusPx = computeBallRadius(rows)
    /\ obstacles = createObstacles(rows, obstacleRadiusPx)
    /\ risk = "low"
    /\ sinks = applySinksMultipliers(createSinks(getNumSinks(rows)), rows, risk)
    /\ bmBalls = << >>
    /\ finished = << >>
    /\ nextBall = 1
    /\ rebasing = NoRebasing

\* this.balls = [] of setConfig.
clearedBalls(bs) == << >>

\* The fields of the BallManager after setConfig(config).
configured(config) ==
    LET risk1 == IF config.risk /= "" THEN config.risk ELSE risk
        sinks1 == IF config.risk /= "" THEN applySinksMultipliers(sinks, rows, risk1)
                  ELSE sinks
        rebuild == config.rows /= 0 /\ config.rows /= rows
    IN  IF rebuild
        THEN [rebuild |-> TRUE,
              risk |-> risk1,
              rows |-> config.rows,
              obstacleRadiusPx |-> computeObstacleRadius(config.rows),
              ballRadiusPx |-> computeBallRadius(config.rows),
              obstacles |-> createObstacles(config.rows, computeObstacleRadius(config.rows)),
              sinks |-> applySinksMultipliers(createSinks(getNumSinks(config.rows)),
                                              config.rows, risk1),
              balls |-> clearedBalls(bmBalls)]
        ELSE [rebuild |-> FALSE,
              risk |-> risk1,
              rows |-> rows,
              obstacleRadiusPx |-> obstacleRadiusPx,
              ballRadiusPx |-> ballRadiusPx,
              obstacles |-> obstacles,
              sinks |-> sinks1,
              balls |-> bmBalls]

\* setConfig(config).
setConfig(config) ==
    LET c == configured(config)
    IN  /\ lastOp' = [op |-> "setConfig", id |-> 0, given |-> c.rebuild,
                      num |-> config.rows, bin |-> -1,
                      removed |-> {b.id : b \in Range(bmBalls)}]
        /\ risk' = c.risk
        /\ rows' = c.rows
        /\ obstacleRadiusPx' = c.obstacleRadiusPx
        /\ ballRadiusPx' = c.ballRadiusPx
        /\ obstacles' = c.obstacles
        /\ sinks' = c.sinks
        /\ bmBalls' = c.balls
        /\ UNCHANGED <<finished, nextBall, rebasing>>

\* addBall(startX); startX.given is false for addBall().  A start x is a padded
\* x in units of 1/BXS(rows) px.
addBall(startX) ==
    LET sx == IF startX.given THEN startX.num
              ELSE pad((GAME_WIDTH \div 2 + 13) * BXS(rows))
    IN  /\ bmBalls' = Append(bmBalls, [id |-> nextBall, sx |-> sx])
        /\ nextBall' = nextBall + 1
        /\ lastOp' = [op |-> "addBall", id |-> nextBall, given |-> startX.given,
                      num |-> sx, bin |-> -1]
        /\ UNCHANGED <<rows, obstacleRadiusPx, ballRadiusPx, obstacles, finished,
                       sinks, risk, rebasing>>

\* A callback that leaves the ball in this.balls.
ballCallbackKeeps(bs, newBall) == bs

\* this.balls.filter(ball => ball !== newBall) of the callback.
ballCallbackFilter(bs, newBall) == SelectSeq(bs, LAMBDA b : b /= newBall)

\* The callback addBall gives the ball, called by the ball's update (from
\* draw, for a ball of this.balls) when it arrives in sink index.
ballCallback(i, index) ==
    LET newBall == bmBalls[i]
    IN  /\ bmBalls' = ballCallbackFilter(bmBalls, newBall)
        /\ finished' = Append(finished, [id |-> newBall.id, index |-> index,
                                         startX |-> newBall.sx])
        /\ lastOp' = [op |-> "onFinish", id |-> newBall.id, given |-> TRUE,
                      num |-> newBall.sx, bin |-> index]
        /\ UNCHANGED <<rows, obstacleRadiusPx, ballRadiusPx, obstacles, nextBall,
                       sinks, risk, rebasing>>

\* BallManager.stop(): the pending frame is cancelled.
stopBallManager ==
    /\ frameRequested' = FALSE
    /\ lastOp' = [op |-> "BallManager.stop", id |-> 0, given |-> frameRequested,
                  num |-> 0, bin |-> -1]
    /\ UNCHANGED <<bmVars, running>>

\* PlinkoEngine.start(): Render.run and Runner.run.
start ==
    /\ running' = TRUE
    /\ lastOp' = [op |-> "start", id |-> 0, given |-> running, num |-> 0, bin |-> -1]
    /\ UNCHANGED <<engineVars, frameRequested>>

\* PlinkoEngine.stop(): Render.stop and Runner.stop.
stop ==
    /\ running' = FALSE
    /\ lastOp' = [op |-> "stop", id |-> 0, given |-> running, num |-> 0, bin |-> -1]
    /\ UNCHANGED <<engineVars, frameRequested>>

\* ---- IEEE 754 binary64 arithmetic, for the offsets the BallManager rebases.
\* A natural number is a sequence of limbs, least significant first.  Every
\* intermediate result is bound as the element of a one-element set, so that
\* it is computed once.
LimbBits == 15
Limb == 2 ^ LimbBits
MantissaBits == 53

Only(S) == CHOOSE x \in S : TRUE

\* a without its most significant zero limbs.
BigNorm(a) == SubSeq(a, 1, SetMax({0} \cup {i \in 1..Len(a) : a[i] /= 0}))

RECURSIVE BigFromNat(_)
BigFromNat(k) == IF k = 0 THEN << >> ELSE << k % Limb >> \o BigFromNat(k \div Limb)

BigLimb(a, i) == IF i >= 1 /\ i <= Len(a) THEN a[i] ELSE 0

\* 1, 0, -1 as a is above, equal to, below b.
BigCmp(a, b) ==
    LET top == SetMax({0} \cup {i \in 1..Max(Len(a), Len(b)) : BigLimb(a, i) /= BigLimb(b, i)})
    IN  IF top = 0 THEN 0 ELSE IF BigLimb(a, top) > BigLimb(b, top) THEN 1 ELSE -1

\* a + b: the carry into limb i comes from a limb below that overflows, with
\* every limb in between full.
BigAdd(a, b) ==
    LET t(i) == BigLimb(a, i) + BigLimb(b, i)
        carry(i) == IF \E j \in 1..(i - 1) :
                           t(j) >= Limb /\ \A k \in (j + 1)..(i - 1) : t(k) = Limb - 1
                    THEN 1 ELSE 0
    IN  BigNorm([i \in 1..(Max(Len(a), Len(b)) + 1) |-> (t(i) + carry(i)) % Limb])

\* a - b, for a >= b: the borrow from limb i goes to a limb below that is
\* short, with every limb in between even.
BigSub(a, b) ==
    LET borrow(i) == IF \E j \in 1..(i - 1) :
                            /\ BigLimb(a, j) < BigLimb(b, j)
                            /\ \A k \in (j + 1)..(i - 1) : BigLimb(a, k) = BigLimb(b, k)
                     THEN 1 ELSE 0
    IN  BigNorm([i \in 1..Len(a) |-> (a[i] - BigLimb(b, i) - borrow(i) + Limb) % Limb])

\* 2 * a + bit.
BigDouble(a, bit) ==
    BigNorm([i \in 1..(Len(a) + 1) |->
                (2 * BigLimb(a, i) + (IF i = 1 THEN bit ELSE BigLimb(a, i - 1) \div (Limb \div 2)))
                % Limb])

\* a * k shifted by shift limbs, for k below Limb: the low and the high
\* halves of the products of the limbs, added.
BigMulSmall(a, k, shift) ==
    Only({BigAdd(low, high) :
            low \in {[i \in 1..(Len(a) + shift) |->
                         IF i <= shift THEN 0 ELSE (a[i - shift] * k) % Limb]},
            high \in {[i \in 1..(Len(a) + shift + 1) |->
                          IF i <= shift + 1 THEN 0 ELSE (a[i - shift - 1] * k) \div Limb]}})

RECURSIVE BigMulFrom(_, _, _)
BigMulFrom(a, b, i) ==
    IF i > Len(b) THEN << >>
    ELSE Only({BigAdd(x, y) : x \in {BigMulSmall(a, b[i], i - 1)},
                              y \in {BigMulFrom(a, b, i + 1)}})

BigMul(a, b) == BigMulFrom(a, b, 1)

RECURSIVE BitLen(_)
BitLen(k) == IF k = 0 THEN 0 ELSE 1 + BitLen(k \div 2)

\* The number of bits of a, for a without leading zero limbs.
BigBitLen(a) == IF a = << >> THEN 0 ELSE (Len(a) - 1) * LimbBits + BitLen(a[Len(a)])

\* Bit i of a (bit 0 the least significant); 0 for i < 0.
BigBit(a, i) ==
    IF i < 0 THEN 0
    ELSE (BigLimb(a, i \div LimbBits + 1) \div (2 ^ (i % LimbBits))) % 2

\* Some bit of a below bit i is set.
BigLowBits(a, i) ==
    /\ i > 0
    /\ \/ \E j \in 1..(i \div LimbBits) : BigLimb(a, j) /= 0
       \/ BigLimb(a, i \div LimbBits + 1) % (2 ^ (i % LimbBits)) /= 0

\* The state of the long division after the step at bit st.i of n, which
\* left the remainder r and gave the quotient bit: st.m holds the st.count
\* leading bits of the quotient; after MantissaBits bits the next bit is the
\* guard, sticky tells whether anything is left after it, and e is the weight
\* of the last bit of m.
Stepped(n, st, r, bit) ==
    IF st.count = MantissaBits
    THEN [st EXCEPT !.done = TRUE, !.guard = bit,
                    !.sticky = (r /= << >> \/ BigLowBits(n, st.i)), !.e = st.i + 1]
    ELSE IF st.count = 0 /\ bit = 0 THEN [st EXCEPT !.i = st.i - 1, !.r = r]
    ELSE [st EXCEPT !.i = st.i - 1, !.r = r, !.m = BigDouble(st.m, bit),
                    !.count = st.count + 1]

\* One step of the long division of n by d.
DivideStep(n, d, st) ==
    Only({Only({Stepped(n, st, IF ge THEN BigSub(r2, d) ELSE r2, IF ge THEN 1 ELSE 0) :
                  ge \in {BigCmp(r2, d) >= 0}}) :
            r2 \in {BigDouble(st.r, BigBit(n, st.i))}})

RECURSIVE DivideSteps(_, _, _, _)
\* Up to k steps of the long division.
DivideSteps(n, d, st, k) ==
    IF k = 0 \/ st.done THEN st
    ELSE Only({DivideSteps(n, d, next, k - 1) : next \in {DivideStep(n, d, st)}})

RECURSIVE DivideFrom(_, _, _)
\* The long division of n by d from the state st on.
DivideFrom(n, d, st) ==
    Only({IF next.done THEN next ELSE DivideFrom(n, d, next) :
            next \in {DivideSteps(n, d, st, LimbBits)}})

\* The first MantissaBits bits of n / d, the guard bit and the sticky bit.
Divide(n, d) ==
    Only({DivideFrom(n, d, st) :
            st \in {[i |-> BigBitLen(n) - 1, r |-> << >>, m |-> << >>, count |-> 0,
                     done |-> FALSE, guard |-> 0, sticky |-> FALSE, e |-> 0]}})

\* 2^bits * k as limbs, for k below Limb.
BigFromNatShifted(k, bits) ==
    BigNorm([j \in 1..(bits \div LimbBits) |-> 0]
            \o BigFromNat(k * 2 ^ (bits % LimbBits)))

\* A binary64 number: sign s, mantissa m of MantissaBits bits, exponent e,
\* for s * m * 2^e; zero has the empty mantissa.
Zero64 == [s |-> 1, m |-> << >>, e |-> 0]

\* The division t rounded to nearest, ties to even, with sign s and 2^e.
Rounded(s, t, e) ==
    Only({IF BigBitLen(m1) > MantissaBits
          THEN [s |-> s, m |-> BigFromNatShifted(1, MantissaBits - 1), e |-> t.e + e + 1]
          ELSE [s |-> s, m |-> m1, e |-> t.e + e] :
            m1 \in {IF t.guard = 1 /\ (t.sticky \/ BigBit(t.m, 0) = 1)
                    THEN BigAdd(t.m, << 1 >>) ELSE t.m}})

\* 2^bits * a.
BigShift(a, bits) ==
    LET q == bits \div LimbBits
        r == bits % LimbBits
    IN  BigNorm([i \in 1..(Len(a) + q + 1) |->
                    ((BigLimb(a, i - q) * 2 ^ r) % Limb)
                    + (BigLimb(a, i - q - 1) \div (2 ^ (LimbBits - r)))])

\* a without its bits lowest bits.
BigShiftRight(a, bits) ==
    LET q == bits \div LimbBits
        r == bits % LimbBits
    IN  BigNorm([i \in 1..(Len(a) - q) |->
                    (a[i + q] \div (2 ^ r))
                    + (BigLimb(a, i + q + 1) % (2 ^ r)) * 2 ^ (LimbBits - r)])

\* The first MantissaBits bits of n, the guard bit and the sticky bit: what
\* Divide(n, << 1 >>) gives.
Truncate(n) ==
    Only({[m |-> IF e >= 0 THEN BigShiftRight(n, e)
                 ELSE BigShift(n, -e),
           guard |-> BigBit(n, e - 1), sticky |-> BigLowBits(n, e - 1), e |-> e] :
            e \in {BigBitLen(n) - MantissaBits}})

RECURSIVE DivideLimbs(_, _, _, _)
\* The quotient (limbs 1..i) and the remainder of the limbs 1..i of a, with
\* rem carried in from above, by k below Limb.
DivideLimbs(a, k, i, rem) ==
    IF i = 0 THEN [q |-> << >>, r |-> rem]
    ELSE Only({[q |-> Append(rest.q, (rem * Limb + a[i]) \div k), r |-> rest.r] :
                 rest \in {DivideLimbs(a, k, i - 1, (rem * Limb + a[i]) % k)}})

\* The first MantissaBits bits of 2^(2 * LimbBits) * n / k, the guard bit and
\* the sticky bit, for n of MantissaBits bits or more and k below Limb.
DivideSmall(n, k) ==
    Only({Only({[t EXCEPT !.sticky = @ \/ res.r /= 0] : t \in {Truncate(BigNorm(res.q))}}) :
            res \in {DivideLimbs(<< 0, 0 >> \o n, k, Len(n) + 2, 0)}})

\* d is one limb followed above zero limbs: a small number times a power of
\* two.
OneLimb(d) == \A i \in 1..(Len(d) - 1) : d[i] = 0

\* The binary64 number nearest to s * (n / d) * 2^e, ties to even.
Round64(s, n, d, e) ==
    Only({IF nn = << >> THEN Zero64
          ELSE IF dd = << 1 >> THEN Only({Rounded(s, t, e) : t \in {Truncate(nn)}})
          ELSE IF OneLimb(dd) /\ BigBitLen(nn) >= MantissaBits
          THEN Only({Rounded(s, t, e - (Len(dd) + 1) * LimbBits) :
                       t \in {DivideSmall(nn, dd[Len(dd)])}})
          ELSE Only({Rounded(s, t, e) : t \in {Divide(nn, dd)}}) :
            nn \in {BigNorm(n)}, dd \in {BigNorm(d)}})

\* Number(k) for an integer k.
FromInt(k) == Round64(IF k < 0 THEN -1 ELSE 1, BigFromNat(Abs(k)), << 1 >>, 0)

\* a / b and a * b of JavaScript, b not zero.
FDiv(a, b) == Only({Round64(x.s * y.s, x.m, y.m, x.e - y.e) : x \in {a}, y \in {b}})
FMul(a, b) ==
    Only({Only({Round64(x.s * y.s, p, << 1 >>, x.e + y.e) : p \in {BigMul(x.m, y.m)}}) :
            x \in {a}, y \in {b}})

\* -a of JavaScript (zero is kept as Zero64).
FNeg(a) == IF a.m = << >> THEN a ELSE [a EXCEPT !.s = -@]

\* a + b of JavaScript: the exact sum, rounded once.
FAdd(a, b) ==
    IF a.m = << >> THEN b
    ELSE IF b.m = << >> THEN a
    ELSE Only({IF x.s = y.s THEN Round64(x.s, BigAdd(xm, ym), << 1 >>, e)
               ELSE IF BigCmp(xm, ym) = 0 THEN Zero64
               ELSE IF BigCmp(xm, ym) > 0 THEN Round64(x.s, BigSub(xm, ym), << 1 >>, e)
               ELSE Round64(y.s, BigSub(ym, xm), << 1 >>, e) :
                 x \in {a}, y \in {b}, e \in {Min(a.e, b.e)},
                 xm \in {BigShift(a.m, a.e - Min(a.e, b.e))},
                 ym \in {BigShift(b.m, b.e - Min(a.e, b.e))}})

\* a - b of JavaScript.
FSub(a, b) == FAdd(a, FNeg(b))

\* |a| is below 2^(-bits).
Below64(a, bits) == a.m = << >> \/ BigBitLen(a.m) + a.e <= -bits

\* get pinDistanceX, as a number.
pinDistanceX64(n) ==
    LET lastRowPinCount == 3 + n - 1
    IN  FDiv(FromInt(WIDTH - PADDING_X * 2), FromInt(lastRowPinCount - 1))

\* A row padding that leaves out the halving.
rowPaddingX64Whole(n, row, d) ==
    FAdd(FromInt(PADDING_X), FMul(FromInt(n - 1 - row), d))

\* rowPaddingX of placePinsAndWalls, as a number, for pinDistanceX d.
rowPaddingX64(n, row, d) ==
    FAdd(FromInt(PADDING_X), FDiv(FMul(FromInt(n - 1 - row), d), FromInt(2)))

\* The colX of the pins of one row of placePinsAndWalls, as numbers.
RowPins64(n, row) ==
    Only({Only({[c \in 1..(3 + row) |-> FAdd(rp, FMul(step, FromInt(c - 1)))] :
                  step \in {FDiv(FSub(FromInt(WIDTH), FMul(rp, FromInt(2))),
                                 FromInt(3 + row - 1))}}) :
            rp \in {rowPaddingX64(n, row, pinDistanceX64(n))}})

\* The colX of all the pins of the boards of some row counts, by row
\* (computed once).
PegRows == {MinRowCount, 11, 15, MaxRowCount}
Pins64 == [n \in PegRows |-> [r \in 1..n |-> RowPins64(n, r - 1)]]

\* getBottomRowCenterSpacingPxForRows(rows, obstacleRadiusPx), as a number.
spacingPxForRows(r, radius) ==
    LET horizontalPadPx == Max(radius * 2, 12)
        safeWidth == GAME_WIDTH - 2 * horizontalPadPx
    IN  FDiv(FromInt(safeWidth), FromInt(Max(1, r) + 1))

\* The spacings of the boards the offsets are rebased between (computed once).
RebaseRows == {8, 10, 16}
Spacings == [r \in RebaseRows |-> spacingPxForRows(r, computeObstacleRadius(r))]

getBottomRowCenterSpacingPxForRows(r, radius) ==
    IF r \in RebaseRows /\ radius = computeObstacleRadius(r) THEN Spacings[r]
    ELSE spacingPxForRows(r, radius)

\* A rebase that takes the current board's radius for the target spacing.
rebaseOffsetBetweenRowsCurrentRadius(offset, fromRows, toRows, fromObstacleRadiusPx, toObstacleRadiusPx) ==
    LET spacingFrom == getBottomRowCenterSpacingPxForRows(fromRows, fromObstacleRadiusPx)
        spacingTo == getBottomRowCenterSpacingPxForRows(toRows, obstacleRadiusPx)
    IN  IF spacingTo = Zero64 THEN offset
        ELSE FMul(offset, FDiv(spacingFrom, spacingTo))

\* rebaseOffsetBetweenRows(offset, fromRows, toRows, fromObstacleRadiusPx,
\* toObstacleRadiusPx).
rebaseOffsetBetweenRows(offset, fromRows, toRows, fromObstacleRadiusPx, toObstacleRadiusPx) ==
    LET spacingFrom == getBottomRowCenterSpacingPxForRows(fromRows, fromObstacleRadiusPx)
        spacingTo == getBottomRowCenterSpacingPxForRows(toRows, toObstacleRadiusPx)
    IN  IF spacingTo = Zero64 THEN offset
        ELSE FMul(offset, FDiv(spacingFrom, spacingTo))

\* An offset calibrated for fromRows is carried to toRows, each board with
\* the obstacle radius computed for its rows.
rebase(toRows) ==
    LET n == Len(rebasing.rows)
        fromRows == rebasing.rows[n]
        result == rebaseOffsetBetweenRows(rebasing.offsets[n], fromRows, toRows,
                                          computeObstacleRadius(fromRows),
                                          computeObstacleRadius(toRows))
    IN  /\ n >= 1
        /\ rebasing' = [rows |-> Append(rebasing.rows, toRows),
                        offsets |-> Append(rebasing.offsets, result)]
        /\ lastOp' = [op |-> "rebaseOffsetBetweenRows", id |-> 0, given |-> TRUE,
                      num |-> toRows, bin |-> -1]
        /\ UNCHANGED <<rows, obstacleRadiusPx, ballRadiusPx, obstacles, bmBalls, finished,
                       nextBall, sinks, risk>>

\* The offsets legacyToOffsets() gives from game/outcomes, by sink index, in
\* halves of the bottom-row spacing: none for the outermost sinks.
legacyToOffsets ==
    [k \in 0..17 |-> IF k \in {0, 17} THEN << >>
                     ELSE IF k \in {1, 16} THEN << 2 * k - 17 >>
                     ELSE << 2 * k - 18, 2 * k - 16 >>]

\* outcomesByRows[r]: the array by target index, or undefined.
outcomesByRows(r) ==
    IF r = 18 THEN [defined |-> TRUE, byIndex |-> legacyToOffsets]
    ELSE IF r \in {8, 12, 16, 20} THEN [defined |-> TRUE, byIndex |-> [k \in {} |-> << >>]]
    ELSE [defined |-> FALSE, byIndex |-> [k \in {} |-> << >>]]

\* getStartXPaddedForOffset(offset) with this.rows = r and
\* this.obstacleRadiusPx = radius, for an offset in halves of the spacing.
getStartXPaddedForOffset(r, radius, offset) ==
    LET horizontalPadPx == Max(radius * 2, 12)
        safeWidth == GAME_WIDTH - 2 * horizontalPadPx
    IN  pad((GAME_WIDTH * BXS(r)) \div 2 + safeWidth * offset)

\* A guard of dropToBinIndex that wants a choice of offsets.
availableSeveral(byIndex, targetIndex) ==
    /\ byIndex.defined
    /\ targetIndex \in DOMAIN byIndex.byIndex
    /\ Len(byIndex.byIndex[targetIndex]) > 1

\* The guard of dropToBinIndex: byIndex && byIndex[targetIndex] &&
\* byIndex[targetIndex].length !== 0.
available(byIndex, targetIndex) ==
    /\ byIndex.defined
    /\ targetIndex \in DOMAIN byIndex.byIndex
    /\ Len(byIndex.byIndex[targetIndex]) /= 0

\* dropToBinIndex(targetIndex, rowsOverride), with Math.random() picking the
\* offset of index pick (from 1) of the list.
dropToBinIndex(targetIndex, rowsOverride, pick) ==
    LET rows0 == IF rowsOverride.given THEN rowsOverride.num ELSE rows
        c == IF rows0 /= rows THEN configured(Config(rows0, "")) ELSE configured(Config(0, ""))
        byIndex == outcomesByRows(rows0)
        ok == available(byIndex, targetIndex)
        offsets == byIndex.byIndex[targetIndex]
        startX == getStartXPaddedForOffset(c.rows, c.obstacleRadiusPx, offsets[pick])
    IN  /\ pick \in 1..(IF ok THEN Len(offsets) ELSE 1)
        /\ risk' = c.risk
        /\ rows' = c.rows
        /\ obstacleRadiusPx' = c.obstacleRadiusPx
        /\ ballRadiusPx' = c.ballRadiusPx
        /\ obstacles' = c.obstacles
        /\ sinks' = c.sinks
        /\ UNCHANGED <<finished, rebasing>>
        /\ IF ok
           THEN /\ bmBalls' = Append(c.balls, [id |-> nextBall, sx |-> startX])
                /\ nextBall' = nextBall + 1
                /\ lastOp' = [op |-> "dropToBinIndex", id |-> nextBall, given |-> TRUE,
                              num |-> startX, bin |-> targetIndex, rows |-> rows0,
                              removed |-> {b.id : b \in Range(bmBalls) \ Range(c.balls)}]
           ELSE /\ bmBalls' = c.balls
                /\ nextBall' = nextBall
                /\ lastOp' = [op |-> "dropToBinIndex", id |-> 0, given |-> FALSE,
                              num |-> 0, bin |-> targetIndex, rows |-> rows0,
                              removed |-> {b.id : b \in Range(bmBalls) \ Range(c.balls)}]

\* computeSinkWidth(rows), in px.
computeSinkWidth(r) ==
    LET numSinks == getNumSinks(r)
    IN  Max(24, (GAME_WIDTH * 7) \div (10 * Max(1, numSinks)))

\* placeBet of the Game page: outcomesByRows[16][1][0] is read whatever the
\* rows selected; reading [0] of an entry that is undefined raises a
\* TypeError, and then nothing else happens (given is false).  An entry
\* without offsets gives undefined, and a start x that is not a number.
placeBet ==
    LET table == outcomesByRows(16)
        entry == table.defined /\ 1 \in DOMAIN table.byIndex
        offsets == table.byIndex[1]
        sinkW == computeSinkWidth(rows)
        startX == IF Len(offsets) >= 1
                  THEN Target(pad((GAME_WIDTH * BXS(rows)) \div 2
                                  + sinkW * offsets[1] * (BXS(rows) \div 2)))
                  ELSE NoTarget
        sx == IF startX.given THEN startX.num ELSE pad((GAME_WIDTH \div 2 + 13) * BXS(rows))
    IN  IF entry
        THEN /\ bmBalls' = Append(bmBalls, [id |-> nextBall, sx |-> sx])
             /\ nextBall' = nextBall + 1
             /\ lastOp' = [op |-> "placeBet", id |-> nextBall, given |-> TRUE,
                           num |-> sx, bin |-> -1]
             /\ UNCHANGED <<rows, obstacleRadiusPx, ballRadiusPx, obstacles, finished, sinks,
                            risk, rebasing>>
        ELSE /\ lastOp' = [op |-> "placeBet", id |-> 0, given |-> FALSE, num |-> 0, bin |-> -1]
             /\ UNCHANGED bmVars

-----------------------------------------------------------------------------
(* Inputs *)

BetAmounts == {Money(1), Money(2)}

\* Math.random(), in tenths.
Randoms == {0, 5}
RandomsFew == {5}

\* Every whole target from 2 below 0 to 2 above n, and the fractions
\* -0.5, 1.5 and n + 0.5; or no target.
TargetsAll(n) ==
    {NoTarget} \cup {Target(10 * t) : t \in -2..(n + 2)}
               \cup {Target(-5), Target(15), Target(10 * n + 5)}

\* No target, or the middle bin.
TargetsFew(n) == {NoTarget, Target(10 * (n \div 2))}

\* x at half-pin-distance slot s of the bottom row: even s on a peg, odd s
\* in the middle of a bin, s < 0 and s > 2(n+1) outside the pegs.
SlotX(n, s) == PADDING_X * XS(n) + (s * pinDistanceX(n)) \div 2

XsAll(n) == {SlotX(n, s) : s \in -1..(2 * n + 3)}
\* Left of the first peg, the middle of bin 0, right of the last peg.
XsFew(n) == {SlotX(n, s) : s \in {-1, 1, 2 * n + 3}}

\* The height at which a ball reaches the last row's threshold.
YsFew(n) == {rowY(n, n - 1) - threshold(n)}

EngineRowCounts == {MinRowCount, MinRowCount + 1}

-----------------------------------------------------------------------------
(* Specifications *)

\* The two loops are going: start() was called on the engine, and the
\* constructor of the BallManager called update().
Started == frameRequested = TRUE /\ running = TRUE

\* Spec: the engine with up to MaxDrops balls on two row counts.
DropBall == \E t \in TargetsFew(rowCount), rnd \in RandomsFew :
                /\ nextId <= MaxDrops
                /\ dropBall(t, rnd)
                /\ UNCHANGED <<bmVars, loopVars>>
SetBetAmount == \E v \in BetAmounts : v /= betAmount /\ setBetAmount(v) /\ UNCHANGED <<bmVars, loopVars>>
SetRiskLevel == \E r \in RiskLevels : r /= riskLevel /\ setRiskLevel(r) /\ UNCHANGED <<bmVars, loopVars>>
UpdateRowCount == \E n \in EngineRowCounts : updateRowCount(n) /\ UNCHANGED <<bmVars, loopVars>>
\* (a tick without balls changes nothing)
Steer == balls /= EmptyMap /\ steerBallsAlongPreselectedPaths /\ UNCHANGED <<bmVars, loopVars>>
Move == \E id \in DOMAIN balls, y \in YsFew(rowCount) : move(id, y, 0, 0) /\ UNCHANGED <<bmVars, loopVars>>
CollisionStart == \E id \in DOMAIN balls, x \in XsFew(rowCount) :
                      collisionStart(id, x) /\ UNCHANGED <<bmVars, loopVars>>

Init == InitEngine(EngineRowCounts) /\ InitBallManager({16}) /\ Started

Next ==
    \/ DropBall
    \/ SetBetAmount
    \/ UpdateRowCount
    \/ Steer
    \/ Move
    \/ CollisionStart

Spec == Init /\ [][Next]_vars

\* SpecDrop: one drop with any target, on any row count.
DropAny == \E t \in TargetsAll(rowCount), rnd \in Randoms :
               /\ nextId = 1
               /\ (t.given => rnd = 0)
               /\ dropBall(t, rnd)
               /\ UNCHANGED <<bmVars, loopVars>>

InitAny == InitEngine(RowCounts) /\ InitBallManager({16}) /\ Started

NextDrop ==
    \/ DropAny
    \/ Steer
    \/ Move

SpecDrop == InitAny /\ [][NextDrop]_vars

\* SpecBin: one ball landing at any x, on any row count, with any bet and risk.
DropOne == \E t \in TargetsFew(rowCount), rnd \in RandomsFew :
               /\ nextId = 1
               /\ dropBall(t, rnd)
               /\ UNCHANGED <<bmVars, loopVars>>
CollisionAny == \E id \in DOMAIN balls, x \in XsAll(rowCount) :
                    collisionStart(id, x) /\ UNCHANGED <<bmVars, loopVars>>

NextBin ==
    \/ DropOne
    \/ SetBetAmount
    \/ SetRiskLevel
    \/ CollisionAny

SpecBin == InitAny /\ [][NextBin]_vars

\* SpecRows: row-count changes of both boards among all the row counts.
UpdateRowCountAny == \E n \in RowCounts : updateRowCount(n) /\ UNCHANGED <<bmVars, loopVars>>
SetConfigAny == \E r \in RowCounts : setConfig(Config(r, "")) /\ UNCHANGED <<engineVars, loopVars>>

InitRows == InitEngine(RowCounts) /\ InitBallManager(RowCounts) /\ Started

NextRows ==
    \/ UpdateRowCountAny
    \/ SetConfigAny

SpecRows == InitRows /\ [][NextRows]_vars

\* SpecVoid: balls in flight on both boards, and row-count changes.
StartXs == {NoTarget}
AddBall == \E sx \in StartXs : nextBall <= MaxDrops /\ addBall(sx) /\ UNCHANGED <<engineVars, loopVars>>
BallArrives == \E i \in 1..Len(bmBalls), index \in {0, rows} :
                   ballCallback(i, index) /\ UNCHANGED <<engineVars, loopVars>>
SetConfig == \E r \in EngineRowCounts : setConfig(Config(r, "")) /\ UNCHANGED <<engineVars, loopVars>>

InitVoid == InitEngine(EngineRowCounts) /\ InitBallManager(EngineRowCounts) /\ Started

NextVoid ==
    \/ DropBall
    \/ UpdateRowCount
    \/ AddBall
    \/ BallArrives
    \/ SetConfig

SpecVoid == InitVoid /\ [][NextVoid]_vars

\* SpecClamp: row counts requested outside the supported range.
RequestedRowCounts == {5, 8, 16, 21}
RequestedRows == {2, 5, 8, 16, 21}
UpdateRowCountRequested == \E n \in RequestedRowCounts :
                               updateRowCount(n) /\ UNCHANGED <<bmVars, loopVars>>
SetConfigRequested == \E r \in RequestedRows, k \in {"", "high"} :
                          setConfig(Config(r, k)) /\ UNCHANGED <<engineVars, loopVars>>

InitClamp == InitEngine({8, 16}) /\ InitBallManager({8, 16}) /\ Started

NextClamp ==
    \/ UpdateRowCountRequested
    \/ SetConfigRequested

SpecClamp == InitClamp /\ [][NextClamp]_vars

\* SpecBoard: the BallManager with balls added, dropped to a bin, arriving,
\* and its rows and risk reconfigured.
BoardRows == {8, 18}
BoardTargets == {-1, 0, 1, 9}
StartXsAll == {NoTarget, Target(pad((GAME_WIDTH \div 2) * BXS(rows)))}
AddBallAny == \E sx \in StartXsAll :
                  /\ nextBall <= MaxDrops
                  /\ addBall(sx)
                  /\ UNCHANGED <<engineVars, loopVars>>
DropToBinIndex == \E t \in BoardTargets,
                     o \in {NoTarget} \cup {Target(r) : r \in BoardRows \cup {0}},
                     pick \in 1..2 :
                      /\ nextBall <= MaxDrops
                      /\ dropToBinIndex(t, o, pick)
                      /\ UNCHANGED <<engineVars, loopVars>>
SetConfigBoard == \E r \in BoardRows :
                      setConfig(Config(r, "")) /\ UNCHANGED <<engineVars, loopVars>>

InitBoard == InitEngine({16}) /\ InitBallManager({16}) /\ Started

NextBoard ==
    \/ AddBallAny
    \/ DropToBinIndex
    \/ BallArrives
    \/ SetConfigBoard

SpecBoard == InitBoard /\ [][NextBoard]_vars

\* SpecRebase: an offset, in halves of the spacing, is rebased from one board
\* to another, a bounded number of times.
HalfOffsets == {-15, -14, 1, 5, 16}
Rebase == \E toRows \in RebaseRows :
              /\ Len(rebasing.rows) <= MaxRebases
              /\ rebase(toRows)
              /\ UNCHANGED <<engineVars, loopVars>>

InitRebase ==
    /\ InitEngine({16})
    /\ rows = 16
    /\ obstacleRadiusPx = computeObstacleRadius(rows)
    /\ ballRadiusPx = computeBallRadius(rows)
    /\ obstacles = createObstacles(rows, obstacleRadiusPx)
    /\ risk = "low"
    /\ sinks = applySinksMultipliers(createSinks(getNumSinks(rows)), rows, risk)
    /\ bmBalls = << >>
    /\ finished = << >>
    /\ nextBall = 1
    /\ \E k \in HalfOffsets, r \in RebaseRows :
           rebasing = [rows |-> << r >>, offsets |-> << FDiv(FromInt(k), FromInt(2)) >>]
    /\ Started

NextRebase == Rebase

SpecRebase == InitRebase /\ [][NextRebase]_vars

\* SpecSinks: the BallManager reconfigured to any rows and risk, with balls
\* added in between.
SinkRows == {3, 4, 7, 8, 12, 16, 17, 20}
SetConfigSinks == \E r \in SinkRows \cup {0}, k \in Risks \cup {""} :
                      setConfig(Config(r, k)) /\ UNCHANGED <<engineVars, loopVars>>

InitSinks == InitEngine({16}) /\ InitBallManager({16}) /\ Started

NextSinks ==
    \/ SetConfigSinks
    \/ AddBall

SpecSinks == InitSinks /\ [][NextSinks]_vars

\* SpecStop: both loops, started and stopped; the runner's ticks (steering,
\* movement, collisions) happen only while the runner runs, and the balls of
\* the BallManager are updated only in a frame that was requested.
Start == start /\ UNCHANGED bmVars
Stop == stop /\ UNCHANGED bmVars
StopBallManager == stopBallManager /\ UNCHANGED engineVars
SteerTick == running /\ Steer
MoveTick == running /\ Move
CollisionTick == running /\ CollisionStart
Frame == frameRequested /\ BallArrives

InitStop == InitEngine({MinRowCount}) /\ InitBallManager({16}) /\ Started

NextStop ==
    \/ DropBall
    \/ AddBall
    \/ Start
    \/ Stop
    \/ StopBallManager
    \/ SteerTick
    \/ MoveTick
    \/ CollisionTick
    \/ Frame

SpecStop == InitStop /\ [][NextStop]_vars

\* SpecSteer: balls dropped, moved to heights around the rows, steered and
\* landing, on two row counts.
\* Just above the first row's threshold, on it, on the second row, and on the
\* last row.
YsSteer(n) == {rowY(n, 0) - threshold(n) - 1, rowY(n, 0) - threshold(n), rowY(n, 1),
               rowY(n, n - 1)}
MoveSteer == \E id \in DOMAIN balls, y \in YsSteer(rowCount) :
                 move(id, y, 0, 0) /\ UNCHANGED <<bmVars, loopVars>>
CollisionMiddle == \E id \in DOMAIN balls :
                       collisionStart(id, SlotX(rowCount, 1)) /\ UNCHANGED <<bmVars, loopVars>>

InitSteer == InitEngine(EngineRowCounts) /\ InitBallManager({16}) /\ Started

NextSteer ==
    \/ DropBall
    \/ UpdateRowCount
    \/ Steer
    \/ MoveSteer
    \/ CollisionMiddle

SpecSteer == InitSteer /\ [][NextSteer]_vars

\* SpecNudge: balls dropped on 8 rows, moved with a velocity to the first
\* row's threshold or to the last row, steered and landing.
NudgeVelocities == {<<-20, 30>>, <<0, 30>>, <<35, 10>>}
MoveNudge == \E id \in DOMAIN balls, v \in NudgeVelocities,
                y \in {rowY(rowCount, 0) - threshold(rowCount), rowY(rowCount, rowCount - 1)} :
                 move(id, y, v[1], v[2]) /\ UNCHANGED <<bmVars, loopVars>>

InitNudge == InitEngine({MinRowCount}) /\ InitBallManager({16}) /\ Started

NextNudge ==
    \/ DropBall
    \/ Steer
    \/ MoveNudge
    \/ CollisionMiddle

SpecNudge == InitNudge /\ [][NextNudge]_vars

\* SpecLedger: drops, bet-amount changes and landings between the first and
\* the last peg, on one row count.
XsIn(n) == {SlotX(n, s) : s \in {1, n + 1, 2 * n + 1}}
CollisionInRange == \E id \in DOMAIN balls, x \in XsIn(rowCount) :
                        collisionStart(id, x) /\ UNCHANGED <<bmVars, loopVars>>

NextLedger ==
    \/ DropBall
    \/ SetBetAmount
    \/ CollisionInRange

SpecLedger == Init /\ [][NextLedger]_vars

\* SpecGame: the BallManager of the Game page, made with 16 rows and low
\* risk: the rows (8 to 16) and risk selectors call setConfig, Place Bet calls
\* placeBet; balls are also added by addBall().
GameRows == 8..16
SetConfigGame == \E r \in GameRows, k \in Risks :
                     setConfig(Config(r, k)) /\ UNCHANGED <<engineVars, loopVars>>
PlaceBet == placeBet /\ UNCHANGED <<engineVars, loopVars>>

NextGame ==
    \/ SetConfigGame
    \/ PlaceBet
    \/ AddBall

SpecGame == InitSinks /\ [][NextGame]_vars

-----------------------------------------------------------------------------
(* Properties *)

\* The number of 'R' decisions among entries a..b of a path.
RCount(d, a, b) == Cardinality({i \in a..b : i \in DOMAIN d /\ d[i] = "R"})

\* The last bottom-row peg x.
LastPinX == pinsLastRowXCoords[Len(pinsLastRowXCoords)]

\* The sum of the bets recorded in f for the balls of S.
RECURSIVE SumBets(_, _)
SumBets(f, S) ==
    IF S = {} THEN 0
    ELSE LET id == CHOOSE j \in S : TRUE
         IN  (IF id \in DOMAIN f THEN f[id] ELSE 0) + SumBets(f, S \ {id})

\* The step is a sensor contact handled by handleBallEnterBin.
Landing == lastOp'.op = "handleBallEnterBin" /\ lastOp'.id \in DOMAIN balls

\* C1: the path stored by a drop on target bin k (an integer in 0..rowCount)
\* has, in each prefix of length i, floor(i*k/rowCount) 'R' decisions, and k
\* 'R' decisions in all.
C1_PrefixCounts ==
    (/\ lastOp.op = "dropBall"
     /\ lastOp.given
     /\ lastOp.num % 10 = 0
     /\ lastOp.num \div 10 \in 0..rowCount)
    => LET d == preselectedPaths[lastOp.id].directions
           k == lastOp.num \div 10
       IN  /\ Len(d) = rowCount
           /\ \A i \in 0..rowCount : RCount(d, 1, i) = (i * k) \div rowCount
           /\ RCount(d, 1, rowCount) = k

\* C1 witness: a drop on bin 5 of 13 rows stored a path with five 'R' decisions.
C1_Witness ==
    /\ lastOp.op = "dropBall"
    /\ lastOp.given
    /\ lastOp.num = 50
    /\ rowCount = 13
    /\ RCount(preselectedPaths[lastOp.id].directions, 1, 13) = 5

\* C3: a sensor contact at an x left of the first bottom-row peg or right of
\* the last one appends no win record, leaves totalProfitHistory and balance
\* as they were, and still removes the ball.
C3_OutsideNoBin ==
    [][(Landing /\ (lastOp'.num < pinsLastRowXCoords[1] \/ lastOp'.num > LastPinX))
       => /\ winRecords' = winRecords
          /\ totalProfitHistory' = totalProfitHistory
          /\ balance' = balance
          /\ lastOp'.id \notin DOMAIN balls']_vars

\* C3 witness: the only ball touched the sensor right of the last peg and is
\* gone without a win record.
C3_Witness ==
    /\ lastOp.op = "handleBallEnterBin"
    /\ lastOp.num > LastPinX
    /\ balls = EmptyMap
    /\ winRecords = << >>
    /\ nextId = 2
    /\ balance < Money(InitialBalance)

\* C4: a sensor contact at an x right of the first bottom-row peg and not
\* right of the last one is recorded for the bin whose index is the number
\* of bottom-row peg x below the ball's x, minus one, which is in 0..rowCount.
C4_BinIndex ==
    (/\ lastOp.op = "handleBallEnterBin"
     /\ lastOp.num > pinsLastRowXCoords[1]
     /\ lastOp.num <= LastPinX)
    => LET count == Cardinality({i \in 1..Len(pinsLastRowXCoords) :
                                    pinsLastRowXCoords[i] < lastOp.num})
       IN  /\ Len(winRecords) = 1
           /\ winRecords[1].binIndex = count - 1
           /\ winRecords[1].binIndex \in 0..rowCount
           /\ winRecords[1].rowCount = rowCount

\* C4 witness: on 12 rows a ball landed between the last two pegs, in bin 12.
C4_Witness ==
    /\ lastOp.op = "handleBallEnterBin"
    /\ rowCount = 12
    /\ lastOp.num > pinsLastRowXCoords[13]
    /\ lastOp.num < LastPinX
    /\ Len(winRecords) = 1
    /\ winRecords[1].binIndex = 12

\* C5: a valid landing in bin b appends one win record with payout
\* bet * multiplier[rowCount][risk][b] and profit payout - bet, adds the payout
\* to balance and removes the ball, its bet and its path, where bet is the
\* bet amount in force when the ball was dropped, kept until the landing.
C5_ValidLanding ==
    [][/\ (Landing /\ lastOp'.given)
          => LET id == lastOp'.id
                 bet == betAmountOfExistingBalls[id]
                 payout == Times(bet, binPayouts(rowCount, riskLevel, lastOp'.bin))
                 rec == winRecords'[Len(winRecords')]
             IN  /\ id \in DOMAIN betAmountOfExistingBalls
                 /\ Len(winRecords') = Len(winRecords) + 1
                 /\ SubSeq(winRecords', 1, Len(winRecords)) = winRecords
                 /\ rec.binIndex = lastOp'.bin
                 /\ rec.betAmount = bet
                 /\ rec.payout.value = payout
                 /\ rec.profit = payout - bet
                 /\ balance' = balance + payout
                 /\ id \notin DOMAIN balls'
                 /\ id \notin DOMAIN betAmountOfExistingBalls'
                 /\ id \notin DOMAIN preselectedPaths'
       /\ lastOp'.op = "dropBall" /\ lastOp'.id \notin DOMAIN balls
          => /\ lastOp'.id \in DOMAIN betAmountOfExistingBalls'
             /\ betAmountOfExistingBalls'[lastOp'.id] = betAmount
       /\ \A id \in DOMAIN balls \cap DOMAIN balls' :
             /\ id \in DOMAIN betAmountOfExistingBalls'
             /\ betAmountOfExistingBalls'[id] = betAmountOfExistingBalls[id]]_vars

\* C5 witness: a ball dropped at bet 1 landed in a bin after the bet amount was
\* changed to 2 and the risk to HIGH, and was paid on the bet of 1.
C5_Witness ==
    /\ lastOp.op = "handleBallEnterBin"
    /\ lastOp.given
    /\ betAmount = Money(2)
    /\ riskLevel = "HIGH"
    /\ Len(winRecords) = 1
    /\ winRecords[1].betAmount = Money(1)
    /\ winRecords[1].payout.value > Money(1)
    /\ balance = Money(InitialBalance) - Money(1) + winRecords[1].payout.value
    /\ balls = EmptyMap

\* C6: a change of the row count to a different value with balls in flight
\* leaves no live ball and resolves none of them: updateRowCount appends no
\* win record, setConfig calls no onFinish.
C6_RowChangeClears ==
    [][/\ (lastOp'.op = "updateRowCount" /\ lastOp'.given /\ balls /= EmptyMap)
          => /\ balls' = EmptyMap
             /\ winRecords' = winRecords
             /\ totalProfitHistory' = totalProfitHistory
       /\ (lastOp'.op = "setConfig" /\ lastOp'.given /\ bmBalls /= << >>)
          => /\ bmBalls' = << >>
             /\ finished' = finished]_vars

\* C6 witness: the row count of the engine was just changed with two balls
\* in flight, while the BallManager has lost a ball to an earlier change.
C6_Witness ==
    /\ lastOp.op = "updateRowCount"
    /\ lastOp.given
    /\ lastOp.removed = {1, 2}
    /\ balls = EmptyMap
    /\ winRecords = << >>
    /\ nextBall = 2
    /\ bmBalls = << >>
    /\ finished = << >>

\* C7: after a change of the row count with balls in flight, balance is what
\* it would be had the removed balls never been dropped: their bets are back.
C7_VoidNotLoss ==
    [][(lastOp'.op = "updateRowCount" /\ lastOp'.given /\ balls /= EmptyMap)
       => balance' = balance + SumBets(betAmountOfExistingBalls, DOMAIN balls)]_vars

\* C8: a drop on a target below 0 or above rowCount adds one ball and stores
\* for it the path of bin 0, or of bin rowCount, of length rowCount.
C8_TargetClamped ==
    [][(/\ lastOp'.op = "dropBall"
        /\ lastOp'.given
        /\ lastOp'.id \notin DOMAIN balls
        /\ (lastOp'.num < 0 \/ lastOp'.num > 10 * rowCount))
       => LET id == lastOp'.id
              nearest == IF lastOp'.num < 0 THEN 0 ELSE rowCount
          IN  /\ DOMAIN balls' = DOMAIN balls \cup {id}
              /\ id \in DOMAIN preselectedPaths'
              /\ Len(preselectedPaths'[id].directions) = rowCount
              /\ preselectedPaths'[id].directions = computeLRPath(rowCount, nearest)
              /\ RCount(preselectedPaths'[id].directions, 1, rowCount) = nearest]_vars

\* C8 witness: a drop on target rowCount + 2 stored a path of 'R' decisions only.
C8_Witness ==
    /\ lastOp.op = "dropBall"
    /\ lastOp.given
    /\ lastOp.num = 10 * (rowCount + 2)
    /\ lastOp.id \in DOMAIN balls
    /\ \A i \in 1..rowCount : preselectedPaths[lastOp.id].directions[i] = "R"

\* C9: in a stored path, two windows of the same length hold numbers of 'R'
\* decisions that differ by at most 1; the path of bin 8 of 16 rows alternates.
C9_EvenSpread ==
    \A id \in DOMAIN preselectedPaths :
        LET d == preselectedPaths[id].directions
            n == Len(d)
        IN  /\ \A len \in 1..n : \A a, b \in 1..(n - len + 1) :
                   Abs(RCount(d, a, a + len - 1) - RCount(d, b, b + len - 1)) <= 1
            /\ (lastOp.op = "dropBall" /\ lastOp.id = id /\ n = 16 /\ lastOp.num = 80)
               => \A i \in 1..(n - 1) : d[i] /= d[i + 1]

\* C9 witness: the path of bin 8 of 16 rows is stored, with 'R' at the even rows.
C9_Witness ==
    /\ lastOp.op = "dropBall"
    /\ lastOp.given
    /\ lastOp.num = 80
    /\ rowCount = 16
    /\ \A i \in 1..16 : preselectedPaths[lastOp.id].directions[i]
                          = (IF i % 2 = 0 THEN "R" ELSE "L")

\* The number of pegs of a board of n rows.
PegTotal(n) == 3 * n + (n * (n - 1)) \div 2

\* C10: on both boards, after the build and after each rebuild, row r holds
\* 3 + r pegs, the bottom row holds rowCount + 2 pegs of strictly increasing
\* x (rowCount + 1 bins of positive width), and nothing of an earlier layout
\* is left.
C10_LayoutShape ==
    /\ Len(rowYCoords) = rowCount
    /\ \A r \in 1..(rowCount - 1) : rowYCoords[r] < rowYCoords[r + 1]
    /\ \A r \in 0..(rowCount - 1) :
          Cardinality({i \in 1..Len(pins) : pins[i].y = rowYCoords[r + 1]}) = 3 + r
    /\ Len(pins) = PegTotal(rowCount)
    /\ Len(pinsLastRowXCoords) = rowCount + 2
    /\ \A c \in 1..(rowCount + 1) : pinsLastRowXCoords[c] < pinsLastRowXCoords[c + 1]
    /\ \A c \in 1..(rowCount + 2) :
          pins[PegTotal(rowCount) - (rowCount + 2) + c].x = pinsLastRowXCoords[c]
    /\ Len(walls) = 2
    /\ Len(obstacles) = PegTotal(rows)
    /\ \A level \in 0..(rows - 1) :
          LET first == PegTotal(level) + 1
          IN  /\ \A c \in 0..(level + 2) : obstacles[first + c].y = obstacles[first].y
              /\ \A c \in 0..(level + 1) : obstacles[first + c].x < obstacles[first + c + 1].x
              /\ level > 0 => obstacles[first - 1].y < obstacles[first].y

\* C10 witness: the engine was just rebuilt from another row count to 20 rows
\* and the BallManager's board has been rebuilt to 8 rows.
C10_Witness ==
    /\ lastOp.op = "updateRowCount"
    /\ lastOp.given
    /\ rowCount = 20
    /\ Len(pins) = 250
    /\ Len(pinsLastRowXCoords) = 22
    /\ rows = 8
    /\ Len(obstacles) = 52

\* The number of gaps between the pegs of the bottom row of the board.
BottomGaps ==
    LET maxY == SetMax({obstacles[i].y : i \in 1..Len(obstacles)})
    IN  Cardinality({i \in 1..Len(obstacles) : obstacles[i].y = maxY}) - 1

\* C11: the row count in use lies in the supported range on both boards,
\* whatever row count was requested, so that the sinks are as many as the
\* gaps between the bottom-row pegs and at least 4.
C11_RowsClamped ==
    /\ rowCount \in RowCounts
    /\ rows \in RowCounts
    /\ Len(sinks) = BottomGaps
    /\ Len(sinks) >= 4

\* C12: dropToBinIndex(target, rows) returns undefined and adds no ball when
\* outcomesByRows has no non-empty offset list for (rows, target); otherwise it
\* adds exactly one ball, whose start x comes from one of the offsets of
\* outcomesByRows[rows][target], and returns that start x.
C12_DropToBin ==
    [][lastOp'.op = "dropToBinIndex" =>
          LET t == lastOp'.bin
              byIndex == outcomesByRows(lastOp'.rows)
              kept == Len(bmBalls) - Cardinality(lastOp'.removed)
          IN  IF byIndex.defined /\ t \in DOMAIN byIndex.byIndex /\ byIndex.byIndex[t] /= << >>
              THEN /\ lastOp'.given
                   /\ nextBall' = nextBall + 1
                   /\ Len(bmBalls') = kept + 1
                   /\ bmBalls'[kept + 1] = [id |-> nextBall, sx |-> lastOp'.num]
                   /\ \E k \in 1..Len(byIndex.byIndex[t]) :
                          lastOp'.num = getStartXPaddedForOffset(rows', obstacleRadiusPx',
                                                                 byIndex.byIndex[t][k])
              ELSE /\ ~lastOp'.given
                   /\ nextBall' = nextBall
                   /\ Len(bmBalls') = kept
                   /\ Range(bmBalls') \subseteq Range(bmBalls)]_vars

\* C12 witness: a drop to sink 1 of 18 rows, which has a single offset, has
\* added the only live ball, after an earlier drop was refused.
C12_Witness ==
    /\ lastOp.op = "dropToBinIndex"
    /\ lastOp.given
    /\ lastOp.bin = 1
    /\ rows = 18
    /\ Len(bmBalls) = 1
    /\ bmBalls[1].sx = lastOp.num

\* The padded x of the two pegs of the bottom row that bound sink b.
BinSpan(obs, r, b) ==
    LET first == Len(obs) - (r + 1)
    IN  [left |-> obs[first + b].x, right |-> obs[first + b + 1].x]

\* C13: a drop to a sink b of the board for which there is no calibrated
\* offset still adds a ball, and the ball starts inside the span of sink b.
C13_FallbackDrop ==
    [][(/\ lastOp'.op = "dropToBinIndex"
        /\ lastOp'.bin \in 0..rows'
        /\ ~available(outcomesByRows(lastOp'.rows), lastOp'.bin))
       => /\ nextBall' = nextBall + 1
          /\ Len(bmBalls') >= 1
          /\ bmBalls'[Len(bmBalls')].sx >= BinSpan(obstacles', rows', lastOp'.bin).left
          /\ bmBalls'[Len(bmBalls')].sx <= BinSpan(obstacles', rows', lastOp'.bin).right]_vars

\* a is within k units in the last place of x.
Near64(a, x, k) ==
    IF a = x THEN TRUE
    ELSE /\ a.s = x.s
         /\ a.m /= << >>
         /\ x.m /= << >>
         /\ a.e - x.e \in {-1, 0, 1}
         /\ LET am == IF a.e > x.e THEN BigDouble(a.m, 0) ELSE a.m
                xm == IF a.e < x.e THEN BigDouble(x.m, 0) ELSE x.m
                bound == IF a.e < x.e THEN 2 * k ELSE k
                diff == IF BigCmp(am, xm) >= 0 THEN BigSub(am, xm) ELSE BigSub(xm, am)
            IN  BigCmp(diff, BigFromNat(bound)) <= 0

\* C14 (as stated): an offset rebased from board A to board B and back to A
\* is equal to the offset it started as.
C14_RoundTripExact ==
    \A i \in 1..(Len(rebasing.rows) - 2) :
        rebasing.rows[i + 2] = rebasing.rows[i] => rebasing.offsets[i + 2] = rebasing.offsets[i]

\* C14 (amended): an offset rebased from board A to board B and back to A is
\* within 4 units in the last place of the offset it started as.
C14_RoundTripNear ==
    \A i \in 1..(Len(rebasing.rows) - 2) :
        rebasing.rows[i + 2] = rebasing.rows[i]
        => Near64(rebasing.offsets[i + 2], rebasing.offsets[i], 4)

\* C14 witness: the offset 2.5 went from 8 rows to 10 rows and back, and came
\* back changed.
C14_Witness ==
    /\ rebasing.rows = << 8, 10, 8 >>
    /\ rebasing.offsets[1] = FDiv(FromInt(5), FromInt(2))
    /\ rebasing.offsets[2] /= rebasing.offsets[1]
    /\ rebasing.offsets[3] /= rebasing.offsets[1]

\* The multipliers of sk are symmetric about the centre and do not decrease
\* with the distance from the centre.
CentreLowest(sk) ==
    LET n == Len(sk)
        mult == [i \in 1..n |-> sk[i].multiplier]
    IN  /\ \A i \in 1..n : mult[i] = mult[n + 1 - i]
        /\ \A i, j \in 1..n :
               Abs(2 * i - n - 1) <= Abs(2 * j - n - 1) => mult[i] <= mult[j]

\* Whether the multipliers generated for numSinks sinks are so (computed once).
GeneratedCentreLowest == [numSinks \in 4..21 |-> CentreLowest(createSinks(numSinks))]

\* C15: after any sequence of setConfig calls changing rows and risk the
\* multipliers of the sinks are symmetric about the centre and non-decreasing
\* with the distance from it, and so are the multipliers getMultiplier
\* generates for every number of sinks from 4 to 21.
C15_SinkMultipliers ==
    /\ CentreLowest(sinks)
    /\ \A numSinks \in 4..21 : GeneratedCentreLowest[numSinks]

\* C15 witness: the board was set to high risk and then to 20 rows, for which
\* the generated multipliers stay: 21 sinks, the centre one the lowest.
C15_Witness ==
    /\ lastOp.op = "setConfig"
    /\ rows = 20
    /\ risk = "high"
    /\ Len(sinks) = 21
    /\ sinks[1].multiplier = getMultiplier(0, 21)
    /\ sinks[11].multiplier < sinks[10].multiplier
    /\ sinks[10].multiplier < sinks[1].multiplier

\* C16: onFinish fires at most once for a ball and only for a live ball, with
\* the start x the ball was added with, and the ball is out of the live list
\* when it fires; a ball keeps its start x while it is live, and a call that
\* clears the live list (a row-count change) fires nothing, after which the
\* cleared balls, no longer live, cannot fire.
C16_OnFinishOnce ==
    [][/\ \A i, j \in 1..Len(finished') : finished'[i].id = finished'[j].id => i = j
       /\ \A c \in Range(bmBalls') : c \in Range(bmBalls) \/ c.id = nextBall
       /\ lastOp'.op = "addBall"
          => bmBalls' = Append(bmBalls, [id |-> nextBall, sx |-> lastOp'.num])
       /\ lastOp'.op = "onFinish"
          => /\ Len(finished') = Len(finished) + 1
             /\ LET f == finished'[Len(finished')]
                IN  /\ \E b \in Range(bmBalls) : b.id = f.id /\ b.sx = f.startX
                    /\ \A c \in Range(bmBalls') : c.id /= f.id
       /\ lastOp'.op /= "onFinish" => finished' = finished]_vars

\* C16 witness: two balls were added; the first was cleared by a row-count
\* change and never reported, the second has just been reported with its
\* start x and is no longer live.
C16_Witness ==
    /\ lastOp.op = "onFinish"
    /\ lastOp.id = 2
    /\ nextBall = 3
    /\ bmBalls = << >>
    /\ Len(finished) = 1
    /\ finished[1].id = 2
    /\ finished[1].startX = lastOp.num

\* C17: once stop() was called on an engine no tick of it is executed (no
\* steering, movement or collision of the runner; no ball update of the
\* BallManager's frame), and stop() leaves no live ball behind.
C17_StopReleases ==
    [][/\ ~running => lastOp'.op \notin {"steer", "move", "handleBallEnterBin"}
       /\ ~frameRequested => lastOp'.op /= "onFinish"
       /\ lastOp'.op = "stop" => balls' = EmptyMap
       /\ lastOp'.op = "BallManager.stop" => bmBalls' = << >>]_vars

\* C18: every live ball that has a path has one computed for the current
\* layout: the path is as long as rowYCoords, which is as long as rowCount,
\* so that whenever the steering loop reads rowYCoords[step] (step below the
\* length of the path) the index is inside rowYCoords.
C18_PathsCurrent ==
    \A id \in DOMAIN balls \cap DOMAIN preselectedPaths :
        /\ Len(preselectedPaths[id].directions) = Len(rowYCoords)
        /\ Len(rowYCoords) = rowCount
        /\ preselectedPaths[id].step <= Len(rowYCoords)
        /\ steered(id) => preselectedPaths[id].step < Len(rowYCoords)

\* C18 witness: a steering tick has just steered a live ball past its first
\* row while the path of a ball removed by a row-count change, computed for
\* the previous layout, is still stored.
C18_Witness ==
    /\ lastOp.op = "steer"
    /\ \E id \in DOMAIN balls \cap DOMAIN preselectedPaths :
           /\ preselectedPaths[id].step >= 1
           /\ steered(id)
    /\ \E old \in DOMAIN preselectedPaths \ DOMAIN balls :
           Len(preselectedPaths[old].directions) /= rowCount

\* C19: every key of preselectedPaths is the id of a ball in the world.
C19_PathsOfLiveBalls == DOMAIN preselectedPaths \subseteq DOMAIN balls

\* The rows whose decision a steering tick applies to ball id.
Applied(id) == (preselectedPaths[id].step + 1)..(preselectedPaths[id].step')

Crossed(id) ==
    {r \in (preselectedPaths[id].step + 1)..Len(preselectedPaths[id].directions) :
        r <= Len(rowYCoords) /\ balls[id].y + threshold(rowCount) >= rowYCoords[r]}

\* The force of the decisions of rows R of the path of ball id: one unit to
\* the right for each "R", one to the left for each "L".
ForceOf(id, R) ==
    Cardinality({r \in R : preselectedPaths[id].directions[r] = "R"})
    - Cardinality({r \in R : preselectedPaths[id].directions[r] = "L"})

\* C21: a steering tick catches up: the cursor of every live ball with a path
\* advances by exactly the number m of row thresholds the ball has crossed
\* since its cursor, the ball receives the m forces of those rows, and after
\* the tick the cursor is at the end of the path or the ball has not reached
\* the threshold of the row at the cursor.
C21_CatchUp ==
    [][lastOp'.op = "steer"
       => \A id \in DOMAIN balls \cap DOMAIN preselectedPaths :
              /\ preselectedPaths'[id].step = preselectedPaths[id].step + Cardinality(Crossed(id))
              /\ balls'[id].fx = balls[id].fx + ForceOf(id, Crossed(id))
              /\ \/ preselectedPaths'[id].step = Len(preselectedPaths'[id].directions)
                 \/ balls'[id].y + threshold(rowCount)
                      < rowYCoords[preselectedPaths'[id].step + 1]]_vars

\* C21 witness: a ball that fell to the last row since the previous tick has
\* had every decision of its path applied in one steering tick (its velocity
\* is at the cap, which takes two applications after a move).
C21_Witness ==
    /\ lastOp.op = "steer"
    /\ \E id \in DOMAIN balls \cap DOMAIN preselectedPaths :
           /\ preselectedPaths[id].step = rowCount
           /\ balls[id].y = rowYCoords[rowCount]
           /\ Abs(balls[id].vx) = maxVx

\* C22: the cursor of a path never decreases and the path never changes
\* while it is stored; a steering tick applies exactly the decisions between
\* the old and the new cursor, each once; the cursor is within 0..length of
\* the path, which for a live ball is rowCount.
C22_Monotonic ==
    [][/\ \A id \in DOMAIN preselectedPaths \cap DOMAIN preselectedPaths' :
              /\ preselectedPaths'[id].step >= preselectedPaths[id].step
              /\ preselectedPaths'[id].directions = preselectedPaths[id].directions
              /\ preselectedPaths'[id].step \in 0..Len(preselectedPaths'[id].directions)
       /\ \A id \in DOMAIN balls' \cap DOMAIN preselectedPaths' :
              preselectedPaths'[id].step \in 0..rowCount'
       /\ lastOp'.op = "steer"
          => \A id \in DOMAIN balls \cap DOMAIN preselectedPaths :
                 balls'[id].fx = balls[id].fx + ForceOf(id, Applied(id))]_vars

\* C22 witness: a ball on the second row has had the second decision applied
\* in this tick (one boost since the move) and the first in an earlier tick.
C22_Witness ==
    /\ lastOp.op = "steer"
    /\ \E id \in DOMAIN balls \cap DOMAIN preselectedPaths :
           /\ preselectedPaths[id].step = 2
           /\ balls[id].y = rowYCoords[2]
           /\ Abs(balls[id].vx) = vxBoost
           /\ Abs(balls[id].fx) = 1

\* C23: after a steering tick that applied decisions to a ball, the ball's
\* horizontal velocity points in the direction of the last decision applied,
\* its magnitude is min(3.5, |vx| + 2.2) after one application and so at
\* most the cap 3.5 after several, and its vertical velocity is unchanged.
C23_CappedBoost ==
    [][lastOp'.op = "steer"
       => \A id \in DOMAIN balls \cap DOMAIN preselectedPaths :
              Applied(id) /= {}
              => LET m == Cardinality(Applied(id))
                     last == preselectedPaths[id].directions[preselectedPaths'[id].step]
                 IN  /\ Abs(balls'[id].vx) = Min(maxVx, Abs(balls[id].vx) + m * vxBoost)
                     /\ Abs(balls'[id].vx) <= maxVx
                     /\ last = "R" => balls'[id].vx > 0
                     /\ last = "L" => balls'[id].vx < 0
                     /\ balls'[id].vy = balls[id].vy]_vars

\* C23 witness: a ball falling at the last row was moving left at 2.0 and has
\* had all its decisions applied; it now moves at the cap, and still falls.
C23_Witness ==
    /\ lastOp.op = "steer"
    /\ \E id \in DOMAIN balls \cap DOMAIN preselectedPaths :
           /\ preselectedPaths[id].step = rowCount
           /\ balls[id].y = rowYCoords[rowCount]
           /\ Abs(balls[id].vx) = maxVx
           /\ balls[id].vy = 30

\* The ball id has no path or its path is exhausted.
Unsteered(id) ==
    \/ id \notin DOMAIN preselectedPaths
    \/ preselectedPaths[id].step = Len(preselectedPaths[id].directions)

\* C24: a steering tick leaves every ball without a path or with an exhausted
\* path as it was (position, velocity, force), and its path state too.
C24_UnsteeredUntouched ==
    [][lastOp'.op = "steer"
       => \A id \in DOMAIN balls :
              Unsteered(id)
              => /\ id \in DOMAIN balls'
                 /\ balls'[id] = balls[id]
                 /\ id \in DOMAIN preselectedPaths' <=> id \in DOMAIN preselectedPaths
                 /\ id \in DOMAIN preselectedPaths
                    => preselectedPaths'[id] = preselectedPaths[id]]_vars

\* C24 witness: a steering tick has run with a ball dropped without a target
\* and a ball whose path is exhausted both in the world.
C24_Witness ==
    /\ lastOp.op = "steer"
    /\ \E id \in DOMAIN balls : id \notin DOMAIN preselectedPaths
    /\ \E id \in DOMAIN balls \cap DOMAIN preselectedPaths :
           preselectedPaths[id].step = Len(preselectedPaths[id].directions)

\* The gaps between the adjacent pins of the rows of the board of n rows.
GapsOf64(n) ==
    UNION {{FSub(Pins64[n][r][c + 1], Pins64[n][r][c]) : c \in 1..(r + 1)} : r \in 1..n}

\* The sums of the pins of the rows of the board of n rows with their
\* mirror pins.
MirrorsOf64(n) ==
    UNION {{FAdd(Pins64[n][r][c], Pins64[n][r][r + 3 - c]) : c \in 1..(r + 2)} : r \in 1..n}

\* The distinct gaps and mirror sums of each board, less pinDistanceX and
\* canvas.width (computed once).
Uneven64 ==
    [n \in PegRows |->
        Only({[gaps |-> {FSub(g, d) : g \in GapsOf64(n)},
               mirrors |-> {FSub(m, w) : m \in MirrorsOf64(n)}] :
                d \in {pinDistanceX64(n)}, w \in {FromInt(WIDTH)}})]

\* The gaps and the mirror sums of the board of n rows are the numbers
\* pinDistanceX and canvas.width.
EvenExact64(n) == Uneven64[n].gaps \cup Uneven64[n].mirrors \subseteq {Zero64}

\* They are within 2^-40 of them.
EvenNear64(n) == \A x \in Uneven64[n].gaps \cup Uneven64[n].mirrors : Below64(x, 40)

C26_SameRowsNoOp ==
    [][/\ (lastOp'.op = "updateRowCount" /\ lastOp'.num = rowCount)
          => UNCHANGED <<rowCount, balls, betAmountOfExistingBalls, preselectedPaths, pins,
                         pinsLastRowXCoords, rowYCoords, walls>>
       /\ (lastOp'.op = "setConfig" /\ lastOp'.num = rows)
          => UNCHANGED <<rows, bmBalls, obstacles, obstacleRadiusPx, ballRadiusPx>>]_vars

\* C26 witness: the row count was set to its current value with a steered
\* ball in flight, which is still there with its bet and its path.
C26_Witness ==
    /\ lastOp.op = "updateRowCount"
    /\ lastOp.num = rowCount
    /\ ~lastOp.given
    /\ \E id \in DOMAIN balls :
           id \in DOMAIN preselectedPaths /\ id \in DOMAIN betAmountOfExistingBalls

\* C26 witness for the BallManager: setConfig was called with the current rows
\* with a ball in flight, which is still there.
C26_WitnessBoard ==
    /\ lastOp.op = "setConfig"
    /\ lastOp.num = rows
    /\ ~lastOp.given
    /\ bmBalls /= << >>

\* C27: whenever dropToBinIndex returns undefined, the rows, the layout
\* (obstacles, radii, sinks) and the balls in flight are as before the call.
C27_FailedDropUnchanged ==
    [][(lastOp'.op = "dropToBinIndex" /\ ~lastOp'.given)
       => UNCHANGED <<rows, obstacles, obstacleRadiusPx, ballRadiusPx, sinks, bmBalls>>]_vars

RECURSIVE SumProfits(_, _)
\* The sum of the profits of the first k records.
SumProfits(records, k) ==
    IF k = 0 THEN 0 ELSE records[k].profit + SumProfits(records, k - 1)

Prospect(bets, level, n, id, b) == Times(bets[id], binPayouts(n, level, b))

\* C29 (as stated): a valid landing pays what the ball's drop fixed: no step
\* between a ball's drop and its landing changes what a landing of the ball
\* in any bin pays.
C29_PayoutFixedAtDrop ==
    [][/\ (Landing /\ lastOp'.given)
          => winRecords'[Len(winRecords')].payout.value
               = Prospect(betAmountOfExistingBalls, riskLevel, rowCount, lastOp'.id, lastOp'.bin)
       /\ \A id \in DOMAIN balls \cap DOMAIN balls', b \in 0..rowCount :
              Prospect(betAmountOfExistingBalls', riskLevel', rowCount', id, b)
                = Prospect(betAmountOfExistingBalls, riskLevel, rowCount, id, b)]_vars

\* C29 (amended): a valid landing pays the bet recorded at the drop times the
\* multiplier of the risk level in force at the landing; no step between a
\* ball's drop and its landing changes what a landing of the ball in any bin
\* pays at any one risk level.
C29_PayoutFixedBet ==
    [][/\ (Landing /\ lastOp'.given)
          => winRecords'[Len(winRecords')].payout.value
               = Prospect(betAmountOfExistingBalls, riskLevel, rowCount, lastOp'.id, lastOp'.bin)
       /\ \A id \in DOMAIN balls \cap DOMAIN balls', b \in 0..rowCount, level \in RiskLevels :
              Prospect(betAmountOfExistingBalls', level, rowCount', id, b)
                = Prospect(betAmountOfExistingBalls, level, rowCount, id, b)]_vars

\* C29 witness: a ball dropped at bet 2 has landed after the bet amount was
\* set to 1, with the risk level MEDIUM, in a bin that pays otherwise at LOW,
\* and was paid 2 times the MEDIUM multiplier.
C29_Witness ==
    /\ lastOp.op = "handleBallEnterBin"
    /\ lastOp.given
    /\ betAmount = Money(1)
    /\ riskLevel = "MEDIUM"
    /\ Len(winRecords) = 1
    /\ winRecords[1].betAmount = Money(2)
    /\ binPayouts(rowCount, "LOW", lastOp.bin) /= binPayouts(rowCount, "MEDIUM", lastOp.bin)
    /\ winRecords[1].payout.value
         = Times(Money(2), binPayouts(rowCount, "MEDIUM", lastOp.bin))

\* C30: every placeBet adds exactly one ball to the BallManager, whatever
\* the rows and the risk selected.
C30_PlaceBetAddsBall ==
    [][lastOp'.op = "placeBet"
       => /\ lastOp'.given
          /\ Len(bmBalls') = Len(bmBalls) + 1
          /\ SubSeq(bmBalls', 1, Len(bmBalls)) = bmBalls]_vars

====
